---- MODULE Spec2Model ----
(***************************************************************************)
(* kb_index: the incremental indexing run (kb_core/src/cli/commands/       *)
(* index.rs: handle_index), the index state it loads and saves             *)
(* (kb_core/src/state/mod.rs: IndexState) and the vector-store calls it    *)
(* makes (kb_core/src/chroma/mod.rs).                                      *)
(*                                                                         *)
(* A file's text is held as the sequence of its 10-line windows, each      *)
(* window summarised by a small number (its text).  Text BlankText is a    *)
(* window that is empty after trimming, text LongText a window of more     *)
(* than MaxChunkChars characters, every other text an ordinary window.     *)
(* The file system is edited only between two runs.                        *)
(***************************************************************************)
EXTENDS Integers, Sequences, FiniteSets, TLC

\* ---------------------------------------------------------------- constants

BATCH_SIZE == 8

MaxChunkChars == 100000

\* ------------------------------------------------------------------- bounds

MaxText == 4

MaxMtime == 2

MaxRuns == 2

\* ------------------------------------------------------------------ inputs

\* The paths a root directory may hold, in the order the walker yields them.
AllFiles == <<"a.md", "b.md">>

BlankText == 0

LongText == 1

Texts == 0..MaxText

\* A file of the diffing scenarios holds up to two windows.
Contents == UNION {[1..n -> Texts] : n \in {0, 1, 2}}

Mtimes == 1..MaxMtime

\* The file of the batching scenario: BATCH_SIZE + 1 equal ordinary windows.
BigContent == [i \in 1..(BATCH_SIZE + 1) |-> 2]

\* ----------------------------------------------------------------- helpers

Min(a, b) == IF a < b THEN a ELSE b

Range(s) == {s[i] : i \in DOMAIN s}

\* s.trim().is_empty()
IsBlank(t) == t = BlankText

\* chunk.len(), in characters
ChunkLen(t) == IF t = LongText THEN MaxChunkChars + 1 ELSE t

\* utils::chunk_text: the windows of the text, those empty after trimming dropped
chunk_text(content) == SelectSeq(content, LAMBDA t : ~IsBlank(t))

\* IndexState::hash_chunk: SHA-256 of the chunk's bytes, taken as injective
hash_chunk(t) == <<"sha256", t>>

\* has_chunk with the comparison lost: no hash is ever found.
has_chunk_never(chunks, hash) == FALSE

\* IndexState::has_chunk
has_chunk(chunks, hash) == \E i \in DOMAIN chunks : chunks[i].hash = hash

\* IndexState::default(): no file record
EmptyState == [p \in {} |-> 0]

\* IndexState::get_last_modified: None is modelled as 0 (no mtime is 0)
get_last_modified(st, path) ==
    IF path \in DOMAIN st THEN st[path].last_modified ELSE 0

\* IndexState::get_file_chunks(..).cloned().unwrap_or_default()
get_file_chunks(st, path) ==
    IF path \in DOMAIN st THEN st[path].chunks ELSE <<>>

\* An update that keeps the record of `path` alone.
update_file_chunks_only(st, path, chunks, last_modified) ==
    [p \in {path} |-> [last_modified |-> last_modified, chunks |-> chunks]]

\* IndexState::update_file_chunks: HashMap::insert of a fresh FileMetadata
update_file_chunks(st, path, chunks, last_modified) ==
    [p \in DOMAIN st \cup {path} |->
        IF p = path
        THEN [last_modified |-> last_modified, chunks |-> chunks]
        ELSE st[p]]

\* utils::collect_files: the files under the root, in the walker's order
collect_files(fs) == SelectSeq(AllFiles, LAMBDA f : f \in DOMAIN fs)

\* ------------------------------------------------------------------- state

VARIABLES
    fsys,          \* the file system: path -> [mtime, content]
    persisted,     \* index-state.json: path -> FileMetadata
    remote,        \* the ids held by the vector-store collection
    pc,            \* where the process is: idle, loop, batch, done, failed
    run,           \* the number of indexing runs started
    state,         \* handle_index: state (the IndexState in memory)
    paths,         \* handle_index: paths
    fidx,          \* the position of the for loop in paths
    modified,      \* handle_index: modified
    prev_chunks,   \* handle_index: prev_chunks
    chunk_info,    \* handle_index: chunk_info
    new_chunks,    \* handle_index: new_chunks
    batches,       \* the number of batches of chunk_info dispatched
    tasks,         \* the unfinished pipelines of the batch: index -> stage
    results,       \* how each finished pipeline of the file ended
    calls,         \* the visit's calls: pipelines started, get_embedding and
                   \* send_to_chroma calls (index, chunk), ids asked deleted
    visit,         \* the file visited last, and how
    history,       \* the (path, chunk) whose pipeline failed when the path
                   \* was last processed, its mtime being unchanged since
    cache_file,    \* query_cache.json: the entries of the QueryState
    sessions_file, \* sessions.json: the SessionManager
    clock,         \* SystemTime::now, one tick per invocation
    qpc,           \* where the query or sessions process is
    hq,            \* handle_query: its arguments and locals
    cache,         \* handle_query: cache (the entries)
    session_manager, \* handle_query, handle_sessions: session_manager
    llm,           \* get_llm_response: state (the entries) and embedding
    shown,         \* what the invocation ended with: the answer and its origin
    net,           \* the network calls of the invocation
    writes,        \* the snapshot files it has written
    loaded,        \* the two snapshots as they were when it started
    input,         \* the arguments a function is called with on its own
    output,        \* and what it returned
    keys,          \* where an OpenAI API key is found: environment, config
    procs          \* two query commands run at once: where each is, its locals

ivars == <<fsys, persisted, remote, pc, run, state, paths, fidx, modified,
           prev_chunks, chunk_info, new_chunks, batches, tasks, results,
           calls, visit, history>>

qvars == <<cache_file, sessions_file, clock, qpc, hq, cache, session_manager,
           llm, shown, net, writes, loaded>>

fvars == <<input, output>>

vars == <<ivars, qvars, fvars, keys, procs>>

\* Option<T>.
None == [some |-> FALSE]
Some(v) == [some |-> TRUE, value |-> v]

\* SessionManager::default(): no session, none active.
NoSessions == [sessions |-> EmptyState, active_session |-> None]

NoLocals == [query |-> <<>>, format |-> "", session |-> None,
             query_embedding |-> <<>>, context_chunks |-> <<>>]

NoLlm == [state |-> <<>>, embedding |-> <<>>, chat |-> "none",
          answer |-> <<>>]

NoSnapshots == [cache |-> <<>>, sessions |-> NoSessions]

\* No query or sessions command has run yet: the two files do not exist and
\* load gives the defaults.
QueryInitAt(t) ==
    /\ cache_file = <<>>
    /\ sessions_file = NoSessions
    /\ clock = t
    /\ qpc = "idle"
    /\ hq = NoLocals
    /\ cache = <<>>
    /\ session_manager = NoSessions
    /\ llm = NoLlm
    /\ shown = None
    /\ net = {}
    /\ writes = {}
    /\ loaded = NoSnapshots

QueryInit == QueryInitAt(0)

\* OPENAI_API_KEY and the openai_api_key of config.toml: unset (or no file),
\* the empty string, or a key.
KeyValues == {"unset", "empty", "set"}
KeySources == [env : KeyValues, config : KeyValues]

\* config/mod.rs 24-61: the key of the configuration loaded; the variable of
\* the environment, when there is one, takes the place of the file's.
load_config(k) == IF k.env # "unset" THEN k.env ELSE k.config

\* A check that is content with any key found, the empty one too.
get_openai_api_key_any(k) == k.env # "unset" \/ load_config(k) # "unset"

\* config/mod.rs 63-83: Ok when a non-empty key is found, else the bail.
get_openai_api_key(k) == k.env = "set" \/ load_config(k) = "set"

\* The key is in the environment.
KeyGiven == keys = [env |-> "set", config |-> "unset"]

\* A query command that has not started.
NotStarted == [pc |-> "idle", query |-> <<>>, query_embedding |-> <<>>,
               cache |-> <<>>, session_manager |-> NoSessions,
               state |-> <<>>, answer |-> <<>>]

\* No two commands run at once.
Alone == procs = [p \in 1..2 |-> NotStarted]

\* No function is called on its own.
NoCall == input = [fn |-> "none"] /\ output = None

NoTasks == [i \in {} |-> "embed"]

NoCalls == [start |-> {}, embed |-> {}, add |-> {}, delete |-> {}]

NoVisit == [path |-> "", kind |-> "none"]

\* The locals of handle_index before the loop has set them, and after exit.
LocalsCleared ==
    /\ modified' = 0
    /\ prev_chunks' = <<>>
    /\ chunk_info' = <<>>
    /\ new_chunks' = <<>>
    /\ batches' = 0
    /\ tasks' = NoTasks
    /\ results' = NoTasks
    /\ calls' = NoCalls

\* The process has exited: nothing of its memory is left.
ProcessGone ==
    /\ state' = EmptyState
    /\ paths' = <<>>
    /\ fidx' = 0
    /\ visit' = NoVisit
    /\ LocalsCleared

TypeOK ==
    /\ DOMAIN fsys \subseteq Range(AllFiles)
    /\ DOMAIN persisted \subseteq Range(AllFiles)
    /\ pc \in {"idle", "loop", "batch", "done", "failed"}
    /\ run \in 0..MaxRuns

\* Nothing is indexed yet, no process runs, and each of `files` holds one of `contents`.
InitWith(files, contents, runs) ==
    /\ fsys \in [files -> [mtime : {1}, content : contents]]
    /\ persisted = EmptyState
    /\ remote = {}
    /\ pc = "idle"
    /\ run = runs
    /\ state = EmptyState
    /\ paths = <<>>
    /\ fidx = 0
    /\ modified = 0
    /\ prev_chunks = <<>>
    /\ chunk_info = <<>>
    /\ new_chunks = <<>>
    /\ batches = 0
    /\ tasks = NoTasks
    /\ results = NoTasks
    /\ calls = NoCalls
    /\ visit = NoVisit
    /\ history = {}

Init == InitWith({"a.md"}, Contents, 0) /\ QueryInit /\ NoCall /\ KeyGiven /\ Alone

\* -------------------------------------------------------------- environment

\* The failures noted for `path` are dropped.
Forgotten(h, path) == {e \in h : e[1] # path}

\* After a run has ended a file is rewritten and/or its modification time
\* changes (one step stands for all the edits made before the next run).
EditFile(f, m, c) ==
    /\ pc \in {"done", "failed"}
    /\ run < MaxRuns
    /\ <<m, c>> # <<fsys[f].mtime, fsys[f].content>>
    /\ fsys' = [fsys EXCEPT ![f] = [mtime |-> m, content |-> c]]
    /\ history' = IF m = fsys[f].mtime THEN history ELSE Forgotten(history, f)
    /\ pc' = "idle"
    /\ UNCHANGED <<persisted, remote, run, state, paths, fidx, modified,
                   prev_chunks, chunk_info, new_chunks, batches, tasks,
                   results, calls, visit, qvars, fvars, keys, procs>>

\* Between two runs a file is deleted.
DeleteFile(f) ==
    /\ pc \in {"idle", "done", "failed"}
    /\ run < MaxRuns
    /\ f \in DOMAIN fsys
    /\ fsys' = [g \in DOMAIN fsys \ {f} |-> fsys[g]]
    /\ UNCHANGED <<persisted, remote, pc, run, state, paths, fidx, modified,
                   prev_chunks, chunk_info, new_chunks, batches, tasks,
                   results, calls, visit, history, qvars, fvars, keys, procs>>

\* ------------------------------------------------------------ handle_index

\* Lines 27-28: the paths are collected and the state is loaded.
StartRun ==
    /\ pc \in {"idle", "done", "failed"}
    /\ get_openai_api_key(keys)
    /\ run < MaxRuns
    /\ run' = run + 1
    /\ paths' = collect_files(fsys)
    /\ state' = persisted
    /\ fidx' = 1
    /\ pc' = "loop"
    /\ visit' = NoVisit
    /\ LocalsCleared
    /\ UNCHANGED <<fsys, persisted, remote>>
    /\ UNCHANGED <<history, qvars, fvars, keys, procs>>

\* Lines 32-33, 44: fs::metadata, modified() or read_to_string fails, and the
\* error leaves handle_index by `?`; nothing is saved.
\* An abort that would write the in-memory state out on its way.
OnAbort_saves(snapshot, st) == st

\* What the state file holds after an error has left handle_index: line 109
\* is not reached, so it is the snapshot that was there.
OnAbort(snapshot, st) == snapshot

IoError ==
    /\ pc = "loop"
    /\ fidx <= Len(paths)
    /\ pc' = "failed"
    /\ persisted' = OnAbort(persisted, state)
    /\ ProcessGone
    /\ UNCHANGED <<fsys, remote, run>>
    /\ UNCHANGED <<history, qvars, fvars, keys, procs>>

\* The check of lines 37-38 with the comparison turned to "older than".
IsUnchanged_older(st, path, m) ==
    /\ path \in DOMAIN st
    /\ get_last_modified(st, path) > m

\* Lines 37-38: a record is stored for the path and its mtime is the file's.
IsUnchanged(st, path, m) ==
    /\ path \in DOMAIN st
    /\ get_last_modified(st, path) = m

\* Lines 36-42: the file is unchanged and the loop goes on to the next one.
SkipFile ==
    /\ pc = "loop"
    /\ fidx <= Len(paths)
    /\ IsUnchanged(state, paths[fidx], fsys[paths[fidx]].mtime)
    /\ modified' = fsys[paths[fidx]].mtime
    /\ fidx' = fidx + 1
    /\ visit' = [path |-> paths[fidx], kind |-> "skip"]
    /\ prev_chunks' = <<>>
    /\ chunk_info' = <<>>
    /\ new_chunks' = <<>>
    /\ batches' = 0
    /\ tasks' = NoTasks
    /\ results' = NoTasks
    /\ calls' = NoCalls
    /\ UNCHANGED <<fsys, persisted, remote, pc, run, state, paths>>
    /\ UNCHANGED <<history, qvars, fvars, keys, procs>>

\* Line 51: the chunks the loop passes over whatever their hash.
IsDropped(t) == IsBlank(t) \/ ChunkLen(t) > MaxChunkChars

\* Lines 50-61: the chunks to embed, each with its hash.
ChunkInfo(chunks, prev) ==
    LET kept == SelectSeq(chunks, LAMBDA t :
                    /\ ~IsDropped(t)
                    /\ ~has_chunk(prev, hash_chunk(t)))
    IN  [i \in 1..Len(kept) |-> [chunk |-> kept[i], hash |-> hash_chunk(kept[i])]]

\* Lines 44-61: the file is read and chunked, and chunk_info is built.
BeginFile ==
    /\ pc = "loop"
    /\ fidx <= Len(paths)
    /\ ~IsUnchanged(state, paths[fidx], fsys[paths[fidx]].mtime)
    /\ modified' = fsys[paths[fidx]].mtime
    /\ prev_chunks' = get_file_chunks(state, paths[fidx])
    /\ chunk_info' = ChunkInfo(chunk_text(fsys[paths[fidx]].content),
                               get_file_chunks(state, paths[fidx]))
    /\ new_chunks' = <<>>
    /\ batches' = 0
    /\ tasks' = NoTasks
    /\ results' = NoTasks
    /\ calls' = NoCalls
    /\ visit' = [path |-> paths[fidx], kind |-> "process"]
    /\ pc' = "batch"
    /\ UNCHANGED <<fsys, persisted, remote, run, state, paths, fidx>>
    /\ UNCHANGED <<history, qvars, fvars, keys, procs>>

\* The dispatch without chunks(BATCH_SIZE): every chunk left is in the batch.
BatchRange_rest(info, b) == (b * BATCH_SIZE + 1)..Len(info)

\* Line 63: chunk_info.chunks(BATCH_SIZE), the indices of batch number b + 1.
BatchRange(info, b) ==
    (b * BATCH_SIZE + 1)..Min((b + 1) * BATCH_SIZE, Len(info))

\* The loop of line 79 left at once, pipelines still running.
BatchDrained_any(t) == TRUE

\* The loop of line 79 left while one pipeline is still running.
BatchDrained_but_one(t) == Cardinality(DOMAIN t) <= 1

\* Line 79: tasks.next() has returned None, every pipeline of the batch is done.
BatchDrained(t) == DOMAIN t = {}

\* Lines 63-77: the next batch's pipelines are pushed, and all are polled by
\* the first tasks.next(): each starts with its sleep.
DispatchBatch ==
    /\ pc = "batch"
    /\ BatchDrained(tasks)
    /\ batches * BATCH_SIZE < Len(chunk_info)
    /\ tasks' = [i \in BatchRange(chunk_info, batches) |-> "embed"]
    /\ batches' = batches + 1
    /\ calls' = [calls EXCEPT !.start = @ \cup BatchRange(chunk_info, batches)]
    /\ UNCHANGED <<fsys, persisted, remote, pc, run, state, paths, fidx,
                   modified, prev_chunks, chunk_info, new_chunks, results,
                   visit>>
    /\ UNCHANGED <<history, qvars, fvars, keys, procs>>

\* FuturesUnordered: a finished future leaves the set, the others stay.
Finished(t, i) == [j \in DOMAIN t \ {i} |-> t[j]]

\* The Err result propagated by `?`: the batch's other futures are dropped.
Failed_cancels(t, i) == [j \in {} |-> "embed"]

\* A failed pipeline that is started again from its embedding.
Failed_retries(t, i) == [t EXCEPT ![i] = "embed"]

\* Lines 79-83: an Err result is dropped by `if let Ok`, and the loop goes on
\* polling the other pipelines of the batch.
Failed(t, i) == Finished(t, i)

Ended(res, i, how) ==
    [j \in DOMAIN res \cup {i} |-> IF j = i THEN how ELSE res[j]]

\* Lines 71-74: the sleep is over, get_embedding returns an embedding and
\* send_to_chroma is called.
EmbedOk(i) ==
    /\ pc = "batch"
    /\ i \in DOMAIN tasks
    /\ tasks[i] = "embed"
    /\ tasks' = [tasks EXCEPT ![i] = "upload"]
    /\ calls' = [calls EXCEPT !.embed = @ \cup {<<i, chunk_info[i].chunk>>},
                               !.add = @ \cup {<<i, chunk_info[i].chunk>>}]
    /\ UNCHANGED <<fsys, persisted, remote, pc, run, state, paths, fidx,
                   modified, prev_chunks, chunk_info, new_chunks, batches,
                   results, visit>>
    /\ UNCHANGED <<history, qvars, fvars, keys, procs>>

\* Lines 72, 79-83: get_embedding fails; the pipeline ends with Err, which the
\* loop at line 79 drops.
EmbedFail(i) ==
    /\ pc = "batch"
    /\ i \in DOMAIN tasks
    /\ tasks[i] = "embed"
    /\ tasks' = Failed(tasks, i)
    /\ results' = Ended(results, i, "embed_err")
    /\ calls' = [calls EXCEPT !.embed = @ \cup {<<i, chunk_info[i].chunk>>}]
    /\ UNCHANGED <<fsys, persisted, remote, pc, run, state, paths, fidx,
                   modified, prev_chunks, chunk_info, new_chunks, batches,
                   visit>>
    /\ UNCHANGED <<history, qvars, fvars, keys, procs>>

\* Line 73: Uuid::new_v4(), a value no other chunk has.  The pipeline alone
\* holds it until its add request has succeeded, and it is named then.
new_uuid == <<"uuid", run, fidx, Len(new_chunks) + 1>>

\* Lines 74-75, 79-83: the add request succeeds; the pipeline ends with
\* Ok(IndexedChunk), which the loop at line 79 pushes on new_chunks.
UploadOk(i) ==
    /\ pc = "batch"
    /\ i \in DOMAIN tasks
    /\ tasks[i] = "upload"
    /\ tasks' = Finished(tasks, i)
    /\ results' = Ended(results, i, "ok")
    /\ remote' = remote \cup {new_uuid}
    /\ new_chunks' = Append(new_chunks,
                            [hash |-> chunk_info[i].hash, id |-> new_uuid])
    /\ UNCHANGED <<fsys, persisted, pc, run, state, paths, fidx, modified,
                   prev_chunks, chunk_info, batches, calls, visit>>
    /\ UNCHANGED <<history, qvars, fvars, keys, procs>>

\* A failed send_to_chroma whose chunk is recorded all the same.
UploadFail_recorded(i) ==
    /\ pc = "batch"
    /\ i \in DOMAIN tasks
    /\ tasks[i] = "upload"
    /\ tasks' = Failed(tasks, i)
    /\ results' = Ended(results, i, "upload_err")
    /\ new_chunks' = Append(new_chunks,
                            [hash |-> chunk_info[i].hash, id |-> new_uuid])
    /\ UNCHANGED <<fsys, persisted, remote, pc, run, state, paths, fidx,
                   modified, prev_chunks, chunk_info, batches, calls, visit>>
    /\ UNCHANGED <<history, qvars, fvars, keys, procs>>

\* Lines 74, 79-83: send_to_chroma fails (collection, listing or add request).
UploadFail(i) ==
    /\ pc = "batch"
    /\ i \in DOMAIN tasks
    /\ tasks[i] = "upload"
    /\ tasks' = Failed(tasks, i)
    /\ results' = Ended(results, i, "upload_err")
    /\ UNCHANGED <<fsys, persisted, remote, pc, run, state, paths, fidx,
                   modified, prev_chunks, chunk_info, new_chunks, batches,
                   calls, visit>>
    /\ UNCHANGED <<history, qvars, fvars, keys, procs>>

\* Lines 90-96: retain keeps the chunks whose hash no new chunk has ...
retain_kept(prev, new) ==
    SelectSeq(prev, LAMBDA c : \A k \in DOMAIN new : new[k].hash # c.hash)

\* A collection of every stored chunk, kept or not.
removed_chunks_all(prev, new) == prev

\* ... and removed_chunks collects the others.
removed_chunks(prev, new) ==
    SelectSeq(prev, LAMBDA c : ~(\A k \in DOMAIN new : new[k].hash # c.hash))

\* The record built from the new chunks alone.
updated_chunks_new_only(prev, new) == new

\* Line 98: updated_chunks.extend(new_chunks)
updated_chunks(prev, new) == retain_kept(prev, new) \o new

Ids(chunks) == {chunks[k].id : k \in DOMAIN chunks}

\* Lines 79-83: the pipelines whose result was Ok.
Succeeded(res) == {i \in DOMAIN res : res[i] = "ok"}

\* The visit that has just processed `path` is noted.
Visited(h, path, failed) ==
    Forgotten(h, path) \cup {<<path, chunk>> : chunk \in failed}

\* Lines 86-106: every batch is done.  With new chunks the record is replaced
\* and the removed chunks are deleted one by one; the first delete that fails
\* (number failing, 0 when none does) leaves handle_index by `?`.
FinishFile ==
    /\ pc = "batch"
    /\ BatchDrained(tasks)
    /\ batches * BATCH_SIZE >= Len(chunk_info)
    /\ \E failing \in 0..Len(removed_chunks(prev_chunks, new_chunks)) :
         LET removed == removed_chunks(prev_chunks, new_chunks)
             asked == IF failing = 0 THEN removed
                      ELSE SubSeq(removed, 1, failing)
             done == IF failing = 0 THEN removed
                     ELSE SubSeq(removed, 1, failing - 1)
         IN  IF new_chunks = <<>>
             THEN /\ pc' = "loop"
                  /\ fidx' = fidx + 1
                  /\ UNCHANGED <<remote, state, paths, modified, prev_chunks,
                                 chunk_info, new_chunks, batches, tasks,
                                 results, calls, visit>>
             ELSE IF failing = 0
             THEN /\ state' = update_file_chunks(state, paths[fidx],
                                 updated_chunks(prev_chunks, new_chunks),
                                 modified)
                  /\ remote' = remote \ Ids(done)
                  /\ calls' = [calls EXCEPT !.delete = @ \cup Ids(asked)]
                  /\ pc' = "loop"
                  /\ fidx' = fidx + 1
                  /\ UNCHANGED <<paths, modified, prev_chunks, chunk_info,
                                 new_chunks, batches, tasks, results, visit>>
             ELSE /\ remote' = remote \ Ids(done)
                  /\ pc' = "failed"
                  /\ ProcessGone
    /\ UNCHANGED <<qvars, fvars, keys, procs>>
    /\ history' = Visited(history, paths[fidx],
                           {chunk_info[i].chunk :
                               i \in DOMAIN results \ Succeeded(results)})
    /\ UNCHANGED <<fsys, persisted, run>>

\* Line 109: the loop is over and the state is saved.
SaveState ==
    /\ pc = "loop"
    /\ fidx > Len(paths)
    /\ persisted' = state
    /\ pc' = "done"
    /\ ProcessGone
    /\ UNCHANGED <<fsys, remote, run>>
    /\ UNCHANGED <<history, qvars, fvars, keys, procs>>

\* --------------------------------------------------------- specifications

Next ==
    \/ \E f \in DOMAIN fsys, m \in Mtimes, c \in Contents : EditFile(f, m, c)
    \/ StartRun
    \/ IoError
    \/ SkipFile
    \/ BeginFile
    \/ DispatchBatch
    \/ \E i \in DOMAIN tasks : EmbedOk(i)
    \/ \E i \in DOMAIN tasks : EmbedFail(i)
    \/ \E i \in DOMAIN tasks : UploadOk(i)
    \/ \E i \in DOMAIN tasks : UploadFail(i)
    \/ FinishFile
    \/ SaveState

Spec == Init /\ [][Next]_vars

\* One run (the last one allowed) over a file of BATCH_SIZE + 1 chunks,
\* nothing indexed before.
InitBatch ==
    InitWith({"a.md"}, {BigContent}, MaxRuns - 1) /\ QueryInit /\ NoCall /\ KeyGiven /\ Alone

NextBatch ==
    \/ StartRun
    \/ IoError
    \/ BeginFile
    \/ DispatchBatch
    \/ \E i \in DOMAIN tasks : EmbedOk(i)
    \/ \E i \in DOMAIN tasks : EmbedFail(i)
    \/ \E i \in DOMAIN tasks : UploadOk(i)
    \/ \E i \in DOMAIN tasks : UploadFail(i)
    \/ FinishFile
    \/ SaveState

SpecBatch == InitBatch /\ [][NextBatch]_vars

\* Two files, each of one chunk, nothing indexed before: an error at the
\* second file comes after the uploads of the first.
TwoContents == {<<2>>, <<3>>}

InitTwo ==
    InitWith({"a.md", "b.md"}, TwoContents, 0) /\ QueryInit /\ NoCall /\ KeyGiven /\ Alone

NextTwo ==
    \/ \E f \in DOMAIN fsys, m \in Mtimes, c \in TwoContents : EditFile(f, m, c)
    \/ StartRun
    \/ IoError
    \/ SkipFile
    \/ BeginFile
    \/ DispatchBatch
    \/ \E i \in DOMAIN tasks : EmbedOk(i)
    \/ \E i \in DOMAIN tasks : EmbedFail(i)
    \/ \E i \in DOMAIN tasks : UploadOk(i)
    \/ \E i \in DOMAIN tasks : UploadFail(i)
    \/ FinishFile
    \/ SaveState

SpecTwo == InitTwo /\ [][NextTwo]_vars

\* A step of handle_index: of its loop, or the return of a call it awaits.
RunStep ==
    \/ IoError
    \/ SkipFile
    \/ BeginFile
    \/ DispatchBatch
    \/ \E i \in DOMAIN tasks : EmbedOk(i)
    \/ \E i \in DOMAIN tasks : EmbedFail(i)
    \/ \E i \in DOMAIN tasks : UploadOk(i)
    \/ \E i \in DOMAIN tasks : UploadFail(i)
    \/ FinishFile
    \/ SaveState

\* The same behaviours, of which those are kept where a running handle_index
\* goes on: the process is scheduled, its sleeps end (index.rs:71) and every
\* call it awaits returns, with success or with failure. Which of the steps
\* possible is taken is left open. Nothing is asked of the user, who may
\* never edit a file or start a run.
SpecLive == InitTwo /\ [][NextTwo]_vars /\ WF_vars(RunStep)

\* The same two files, of which one or both are deleted between the runs.
NextGone ==
    \/ \E f \in DOMAIN fsys, m \in Mtimes, c \in TwoContents : EditFile(f, m, c)
    \/ \E f \in DOMAIN fsys : DeleteFile(f)
    \/ StartRun
    \/ IoError
    \/ SkipFile
    \/ BeginFile
    \/ DispatchBatch
    \/ \E i \in DOMAIN tasks : EmbedOk(i)
    \/ \E i \in DOMAIN tasks : EmbedFail(i)
    \/ \E i \in DOMAIN tasks : UploadOk(i)
    \/ \E i \in DOMAIN tasks : UploadFail(i)
    \/ FinishFile
    \/ SaveState

SpecGone == InitTwo /\ [][NextGone]_vars

\* ---------------------------------------- the query cache (state/mod.rs)

\* Texts are sequences of characters; `hasher.update` on one text after the
\* other digests their concatenation.
RECURSIVE Concat(_)
Concat(texts) ==
    IF texts = <<>> THEN <<>> ELSE Head(texts) \o Concat(Tail(texts))

\* Lines 149-156: SHA-256 over the query's bytes followed by each chunk's
\* bytes, with nothing in between. The digest is injective on the bytes.
hash_query_context(query, context_chunks) ==
    <<"sha256", query \o Concat(context_chunks)>>

RECURSIVE Dot(_, _)
Dot(a, b) ==
    IF a = <<>> \/ b = <<>> THEN 0
    ELSE Head(a) * Head(b) + Dot(Tail(a), Tail(b))

\* The vectors of the model have an integral norm, so that `sqrt` is exact.
Norm(a) == CHOOSE n \in 0..Dot(a, a) : n * n = Dot(a, a)

\* Lines 158-163: dot / (norm_a * norm_b + 1e-8) in f32, kept as a fraction.
\* A product of norms of 1 or more absorbs the 1e-8 in f32 (the spacing of
\* f32 at 1 is 1.2e-7); a product of 0 comes with dot = 0 and gives 0 / 1e-8,
\* which is 0.
cosine_similarity(a, b) ==
    [num |-> Dot(a, b),
     den |-> IF Norm(a) * Norm(b) = 0 THEN 1 ELSE Norm(a) * Norm(b)]

\* a > b on two such fractions (f32 `>`, and `partial_cmp` being Greater).
Greater(a, b) == a.num * b.den > b.num * a.den

\* The threshold of line 138 as a fraction of HUNDRED.
HUNDRED == 100
Threshold(t) == [num |-> t, den |-> HUNDRED]

\* Line 138 with the comparison turned to "at least".
Exceeds_or_equal(similarity, threshold) ==
    ~Greater(Threshold(threshold), similarity)

\* Line 138: similarity > threshold.
Exceeds(similarity, threshold) == Greater(similarity, Threshold(threshold))

\* Lines 132-142: the closure of filter_map on the entry at position i.
Candidate(entries, i, query_embedding, threshold) ==
    IF Len(entries[i].embedding) # Len(query_embedding) THEN None
    ELSE LET similarity ==
                 cosine_similarity(entries[i].embedding, query_embedding)
         IN  IF Exceeds(similarity, threshold)
             THEN Some([similarity |-> similarity,
                        answer |-> entries[i].answer])
             ELSE None

\* A maximum that keeps the earlier of two elements that compare Equal.
RECURSIVE max_by_first(_, _, _, _)
max_by_first(entries, n, query_embedding, threshold) ==
    IF n = 0 THEN None
    ELSE LET before == max_by_first(entries, n - 1, query_embedding, threshold)
             this == Candidate(entries, n, query_embedding, threshold)
         IN  IF ~this.some THEN before
             ELSE IF ~before.some THEN this
             ELSE IF Greater(this.value.similarity, before.value.similarity)
                  THEN this
                  ELSE before

\* Line 144: Iterator::max_by folds from the left and keeps the later of
\* two elements unless the earlier one compares Greater.
RECURSIVE max_by(_, _, _, _)
max_by(entries, n, query_embedding, threshold) ==
    IF n = 0 THEN None
    ELSE LET before == max_by(entries, n - 1, query_embedding, threshold)
             this == Candidate(entries, n, query_embedding, threshold)
         IN  IF ~this.some THEN before
             ELSE IF ~before.some THEN this
             ELSE IF Greater(before.value.similarity, this.value.similarity)
                  THEN before
                  ELSE this

\* Lines 129-146.
find_similar(entries, query_embedding, threshold) ==
    LET best == max_by(entries, Len(entries), query_embedding, threshold)
    IN  IF best.some THEN Some(best.value.answer) ELSE None

\* An entry found by its query text alone.
Matches_query_only(e, query, context_hash) == e.query = query

\* Line 115: the predicate of `find`.
Matches(e, query, context_hash) ==
    e.query = query /\ e.context_hash = context_hash

\* Lines 113-117: the answer of the first entry that matches.
get_cached_answer(entries, query, context_hash) ==
    LET hits == {i \in DOMAIN entries :
                    Matches(entries[i], query, context_hash)}
    IN  IF hits = {} THEN None
        ELSE Some(entries[CHOOSE i \in hits : \A j \in hits : i <= j].answer)

QueryCache(query, context_hash, embedding, answer) ==
    [query |-> query, context_hash |-> context_hash,
     embedding |-> embedding, answer |-> answer]

\* An insert that replaces the entry of the same query and context hash.
insert_answer_dedup(entries, query, context_hash, embedding, answer) ==
    SelectSeq(entries, LAMBDA e : ~Matches(e, query, context_hash))
        \o <<QueryCache(query, context_hash, embedding, answer)>>

\* Lines 119-127: push.
insert_answer(entries, query, context_hash, embedding, answer) ==
    Append(entries, QueryCache(query, context_hash, embedding, answer))

\* ------------------------------------- the session manager (state/mod.rs)

\* Lines 206-212: a fresh session.
SessionState(id, now) ==
    [id |-> id, queries |-> <<>>, responses |-> <<>>,
     created_at |-> now, last_updated |-> now]

\* HashMap::insert, and get_mut followed by a write.
Put(sessions, id, session) ==
    [k \in DOMAIN sessions \cup {id} |->
        IF k = id THEN session ELSE sessions[k]]

\* A session created without being made the active one.
create_session_inactive(sm, id, now) ==
    [sm EXCEPT !.sessions = Put(@, id, SessionState(id, now))]

\* Lines 200-218.
create_session(sm, id, now) ==
    [sessions |-> Put(sm.sessions, id, SessionState(id, now)),
     active_session |-> Some(id)]

\* Lines 220-230: the active session, if the pointer is set and names a key.
get_active_session(sm) ==
    IF sm.active_session.some /\ sm.active_session.value \in DOMAIN sm.sessions
    THEN Some(sm.sessions[sm.active_session.value])
    ELSE None

\* A switch that sets the pointer whatever the id.
set_active_session_unchecked(sm, id) ==
    [ok |-> TRUE, sm |-> [sm EXCEPT !.active_session = Some(id)]]

\* Lines 248-255; Ok when the id is a key (line 249), else the bail.
set_active_session(sm, id) ==
    IF id \in DOMAIN sm.sessions
    THEN [ok |-> TRUE, sm |-> [sm EXCEPT !.active_session = Some(id)]]
    ELSE [ok |-> FALSE, sm |-> sm]

\* A turn of which only the question is kept.
Pushed_query_only(session, query, response) ==
    [session EXCEPT !.queries = Append(@, query)]

\* Lines 239-240, and query.rs 47-48: the two pushes.
Pushed(session, query, response) ==
    [session EXCEPT !.queries = Append(@, query),
                    !.responses = Append(@, response)]

\* A turn added without touching last_updated.
add_interaction_stale(sm, query, response, now) ==
    LET active == get_active_session(sm)
    IN  IF active.some
        THEN [ok |-> TRUE,
              sm |-> [sm EXCEPT !.sessions =
                         Put(@, active.value.id,
                             Pushed(active.value, query, response))]]
        ELSE [ok |-> FALSE, sm |-> sm]

\* A turn that, with no active session, opens one instead of failing.
add_interaction_opens(sm, query, response, now) ==
    LET active == get_active_session(sm)
        id == <<"session", 0>>
    IN  IF active.some
        THEN [ok |-> TRUE,
              sm |-> [sm EXCEPT !.sessions =
                         Put(@, active.value.id,
                             [Pushed(active.value, query, response)
                                 EXCEPT !.last_updated = now])]]
        ELSE [ok |-> TRUE,
              sm |-> [sessions |-> Put(sm.sessions, id,
                                       Pushed(SessionState(id, now), query, response)),
                      active_session |-> Some(id)]]

\* Lines 232-246; Ok when there is an active session, else the bail.
add_interaction(sm, query, response, now) ==
    LET active == get_active_session(sm)
    IN  IF active.some
        THEN [ok |-> TRUE,
              sm |-> [sm EXCEPT !.sessions =
                         Put(@, active.value.id,
                             [Pushed(active.value, query, response)
                                 EXCEPT !.last_updated = now])]]
        ELSE [ok |-> FALSE, sm |-> sm]

\* query.rs 46-50: the cached answer is pushed on the active session, whose
\* last_updated is left alone; with no active session nothing is done.
record_cached(sm, query, similar) ==
    LET active == get_active_session(sm)
    IN  IF active.some
        THEN [sm EXCEPT !.sessions =
                 Put(@, active.value.id, Pushed(active.value, query, similar))]
        ELSE sm

\* A clear that removes every session.
clear_active_all(sm) == NoSessions

\* A clear that removes the session and leaves the pointer on it.
clear_active_dangling(sm) ==
    [sm EXCEPT !.sessions = [k \in DOMAIN sm.sessions \ {sm.active_session.value} |->
                                sm.sessions[k]]]

\* session.rs 9-16: the active session is removed and the pointer unset.
clear_active(sm) ==
    [sessions |-> [k \in DOMAIN sm.sessions \ {sm.active_session.value} |->
                      sm.sessions[k]],
     active_session |-> None]

\* ------------------------------------------ handle_query (query.rs, llm)

\* No file, no indexing run.
NoIndex == InitWith({}, {<<>>}, MaxRuns)

\* The texts asked.
QueryTexts == {<<"a">>, <<"a", "b">>}

\* query.rs 42 and llm/mod.rs 23: the threshold 0.93, in hundredths.
SIMILARITY == 93

\* llm/mod.rs 108.
NO_ANSWER == <<"No answer generated">>

\* The number of query and sessions commands run.
MaxInvocations == 2

\* What the services may return: embeddings (the provider need not give the
\* same vector twice), retrieved documents, answers.
QueryVectors == {<<3, 4>>, <<4, 3>>, <<1, 0>>}
Documents == {<<<<"b">>>>, <<<<"c">>>>}
Answers == {<<"x">>, <<"y">>}

\* The chat call ends with an answer or: no response (send or text fails), a
\* body that is not JSON, a non-success status with a JSON error body, a
\* success whose JSON has no choices[0].message.content.
ChatFailures == {"transport", "not_json"}
ChatNoAnswer == {"status", "no_content"}

Formats == {"smart", "json", "markdown", "pretty"}

\* --session new, --session <id> (a known or an unknown one), or no option.
\* A session made by the n-th command has an id of its own; none has number 0.
NewSession == <<"new">>
SessionId(n) == <<"session", n>>
SessionIds == {SessionId(n) : n \in 0..MaxInvocations}
SessionArgs == {None, Some(NewSession)} \cup {Some(id) : id \in SessionIds}

\* query.rs 112-124: each result is wrapped with its file name and a fence.
FormatChunks(docs) == [k \in DOMAIN docs |-> <<"*">> \o docs[k]]

\* The process ends: its locals are gone; what it showed stays on screen.
Exit(how, origin, answer) ==
    /\ qpc' = how
    /\ hq' = NoLocals
    /\ llm' = NoLlm
    /\ shown' = Some([origin |-> origin, answer |-> answer])

\* query.rs 22-35 on the manager just loaded.
Sessioned(sm, arg, now) ==
    IF arg.some
    THEN IF arg.value = NewSession
         THEN [ok |-> TRUE, sm |-> create_session(sm, SessionId(now), now)]
         ELSE set_active_session(sm, arg.value)
    ELSE IF ~sm.active_session.some
         THEN [ok |-> TRUE, sm |-> create_session(sm, SessionId(now), now)]
         ELSE [ok |-> TRUE, sm |-> sm]

\* query.rs 17-35: both snapshots are loaded and the session is settled; an
\* unknown session id ends the command.
StartQuery(query, format, session) ==
    /\ qpc \in {"idle", "done", "error"}
    /\ get_openai_api_key(keys)
    /\ clock < MaxInvocations
    /\ clock' = clock + 1
    /\ cache' = cache_file
    /\ loaded' = [cache |-> cache_file, sessions |-> sessions_file]
    /\ net' = {}
    /\ LET s == Sessioned(sessions_file, session, clock + 1)
       IN  /\ session_manager' = s.sm
           /\ IF s.ok
              THEN /\ qpc' = "embed"
                   /\ hq' = [NoLocals EXCEPT !.query = query,
                                !.format = format, !.session = session]
                   /\ llm' = NoLlm
                   /\ shown' = None
              ELSE Exit("error", "session", <<>>)
    /\ writes' = {}
    /\ UNCHANGED <<cache_file, sessions_file, ivars, fvars, keys, procs>>

\* query.rs 39: get_embedding fails.
EmbedQueryFail ==
    /\ qpc = "embed"
    /\ net' = net \cup {"embedding"}
    /\ Exit("error", "embedding", <<>>)
    /\ UNCHANGED <<cache_file, sessions_file, clock, cache, session_manager,
                   loaded, writes,
                   ivars, fvars, keys, procs>>

\* query.rs 39: get_embedding returns v.
EmbedQuery(v) ==
    /\ qpc = "embed"
    /\ net' = net \cup {"embedding"}
    /\ hq' = [hq EXCEPT !.query_embedding = v]
    /\ qpc' = "lookup"
    /\ UNCHANGED <<cache_file, sessions_file, clock, cache, session_manager,
                   llm, shown, loaded, writes,
                   ivars, fvars, keys, procs>>

\* A cache hit that inserts the answer under the new query and saves the
\* cache.
CacheHit_inserting ==
    /\ qpc = "lookup"
    /\ LET similar == find_similar(cache, hq.query_embedding, SIMILARITY)
       IN  /\ similar.some
           /\ session_manager' =
                  record_cached(session_manager, hq.query, similar.value)
           /\ sessions_file' =
                  IF get_active_session(session_manager).some
                  THEN session_manager' ELSE sessions_file
           /\ cache' = insert_answer(cache, hq.query,
                                     hash_query_context(hq.query, <<>>),
                                     hq.query_embedding, similar.value)
           /\ Exit("done", "cache", similar.value)
    /\ cache_file' = cache'
    /\ writes' = IF get_active_session(session_manager).some
                THEN writes \cup {"cache", "sessions"}
                ELSE writes \cup {"cache"}
    /\ UNCHANGED <<clock, net, loaded, ivars, fvars, keys, procs>>

\* query.rs 42-53: the similarity cache has an answer; it is shown, pushed
\* on the active session, the sessions are saved, and the command returns.
CacheHit ==
    /\ qpc = "lookup"
    /\ LET similar == find_similar(cache, hq.query_embedding, SIMILARITY)
       IN  /\ similar.some
           /\ session_manager' =
                  record_cached(session_manager, hq.query, similar.value)
           /\ sessions_file' =
                  IF get_active_session(session_manager).some
                  THEN session_manager' ELSE sessions_file
           /\ Exit("done", "cache", similar.value)
    /\ writes' = IF get_active_session(session_manager).some
                THEN writes \cup {"sessions"} ELSE writes
    /\ UNCHANGED <<cache_file, clock, cache, net, loaded, ivars, fvars, keys, procs>>

\* A handle_query that goes on to the vector store whatever the cache says.
CacheMiss_always ==
    /\ qpc = "lookup"
    /\ qpc' = "search"
    /\ UNCHANGED <<cache_file, sessions_file, clock, hq, cache,
                   session_manager, llm, shown, net, loaded, writes,
                   ivars, fvars, keys, procs>>

\* query.rs 42, 55: no entry is similar enough.
CacheMiss ==
    /\ qpc = "lookup"
    /\ ~find_similar(cache, hq.query_embedding, SIMILARITY).some
    /\ qpc' = "search"
    /\ UNCHANGED <<cache_file, sessions_file, clock, hq, cache,
                   session_manager, llm, shown, net, loaded, writes,
                   ivars, fvars, keys, procs>>

\* query.rs 56-74: query_chroma fails, or its body lacks one of the arrays.
SearchFail ==
    /\ qpc = "search"
    /\ net' = net \cup {"vector_store"}
    /\ Exit("error", "vector_store", <<>>)
    /\ UNCHANGED <<cache_file, sessions_file, clock, cache, session_manager,
                   loaded, writes,
                   ivars, fvars, keys, procs>>

\* query.rs 56-94: query_chroma returns docs.
Search(docs) ==
    /\ qpc = "search"
    /\ net' = net \cup {"vector_store"}
    /\ hq' = [hq EXCEPT !.context_chunks = FormatChunks(docs)]
    /\ qpc' = "format"
    /\ UNCHANGED <<cache_file, sessions_file, clock, cache, session_manager,
                   llm, shown, loaded, writes,
                   ivars, fvars, keys, procs>>

\* query.rs 97-110, 155-163: json, markdown and the default only print.
ShowResults ==
    /\ qpc = "format"
    /\ hq.format # "smart"
    /\ Exit("done", "results", <<>>)
    /\ UNCHANGED <<cache_file, sessions_file, clock, cache, session_manager,
                   net, loaded, writes,
                   ivars, fvars, keys, procs>>

\* query.rs 129, llm/mod.rs 16: get_llm_response loads the cache again.
AskLlm ==
    /\ qpc = "format"
    /\ hq.format = "smart"
    /\ llm' = [NoLlm EXCEPT !.state = cache_file]
    /\ qpc' = "llm_embed"
    /\ UNCHANGED <<cache_file, sessions_file, clock, hq, cache,
                   session_manager, shown, net, loaded, writes,
                   ivars, fvars, keys, procs>>

\* llm/mod.rs 21: get_embedding fails.
LlmEmbedFail ==
    /\ qpc = "llm_embed"
    /\ net' = net \cup {"embedding"}
    /\ Exit("error", "embedding", <<>>)
    /\ UNCHANGED <<cache_file, sessions_file, clock, cache, session_manager,
                   loaded, writes,
                   ivars, fvars, keys, procs>>

\* llm/mod.rs 21: get_embedding returns v.
LlmEmbed(v) ==
    /\ qpc = "llm_embed"
    /\ net' = net \cup {"embedding"}
    /\ llm' = [llm EXCEPT !.embedding = v]
    /\ qpc' = "llm_lookup"
    /\ UNCHANGED <<cache_file, sessions_file, clock, hq, cache,
                   session_manager, shown, loaded, writes,
                   ivars, fvars, keys, procs>>

\* llm/mod.rs 23-30: the similar answer, else the exact one.
LlmLookup ==
    LET similar == find_similar(llm.state, llm.embedding, SIMILARITY)
    IN  IF similar.some THEN similar
        ELSE get_cached_answer(
                 llm.state, hq.query,
                 hash_query_context(hq.query, hq.context_chunks))

\* llm/mod.rs 23-30: get_llm_response returns an answer of its cache.
LlmCached ==
    /\ qpc = "llm_lookup"
    /\ LlmLookup.some
    /\ llm' = [llm EXCEPT !.answer = LlmLookup.value]
    /\ qpc' = "record"
    /\ UNCHANGED <<cache_file, sessions_file, clock, hq, cache,
                   session_manager, shown, net, loaded, writes,
                   ivars, fvars, keys, procs>>

LlmUncached ==
    /\ qpc = "llm_lookup"
    /\ ~LlmLookup.some
    /\ qpc' = "chat"
    /\ UNCHANGED <<cache_file, sessions_file, clock, hq, cache,
                   session_manager, llm, shown, net, loaded, writes,
                   ivars, fvars, keys, procs>>

\* llm/mod.rs 96-104: send, text or serde_json::from_str fails.
ChatFail(how) ==
    /\ qpc = "chat"
    /\ net' = net \cup {"chat"}
    /\ Exit("error", how, <<>>)
    /\ UNCHANGED <<cache_file, sessions_file, clock, cache, session_manager,
                   loaded, writes,
                   ivars, fvars, keys, procs>>

\* llm/mod.rs 103-109: the status of the reply is not looked at; any JSON
\* body gives an answer, the default one when the content is missing.
Answered(kind, content) == IF kind = "answer" THEN content ELSE NO_ANSWER

\* llm/mod.rs 96-114: the reply is JSON; the answer is inserted into the
\* cache of get_llm_response, which is saved, and returned.
Chat(kind, content) ==
    /\ qpc = "chat"
    /\ net' = net \cup {"chat"}
    /\ llm' = [llm EXCEPT
           !.state = insert_answer(
               @, hq.query, hash_query_context(hq.query, hq.context_chunks),
               llm.embedding, Answered(kind, content)),
           !.chat = kind, !.answer = Answered(kind, content)]
    /\ cache_file' = llm'.state
    /\ qpc' = "record"
    /\ writes' = writes \cup {"cache"}
    /\ UNCHANGED <<sessions_file, clock, hq, cache, session_manager, shown,
                   loaded, ivars, fvars, keys, procs>>

\* What the files hold after a save of the whole document to them.
Saved_appended(file, document) == file \o document

\* A save that keeps the entries the file holds and adds the new ones.
Saved_merged(file, document) ==
    file \o SelectSeq(document, LAMBDA e : e \notin Range(file))

\* state/mod.rs 105-111: File::create truncates; the document replaces what
\* was there.
Saved(file, document) == document

\* query.rs 136-146: back in handle_query the answer is inserted into the
\* cache loaded at line 18, which is saved; the turn is added to the active
\* session and the sessions are saved. The cache of get_llm_response is
\* dropped.
Record ==
    /\ qpc = "record"
    /\ cache' = insert_answer(
                    cache, hq.query,
                    hash_query_context(hq.query, hq.context_chunks),
                    hq.query_embedding, llm.answer)
    /\ cache_file' = Saved(cache_file, cache')
    /\ LET added == add_interaction(session_manager, hq.query, llm.answer,
                                    clock)
       IN  /\ session_manager' = added.sm
           /\ IF added.ok
              THEN /\ sessions_file' = session_manager'
                   /\ Exit("done",
                           IF llm.chat = "none" THEN "llm_cache" ELSE llm.chat,
                           llm.answer)
              ELSE /\ sessions_file' = sessions_file
                   /\ Exit("error", "session", <<>>)
    /\ writes' = IF add_interaction(session_manager, hq.query, llm.answer,
                                     clock).ok
                THEN writes \cup {"cache", "sessions"}
                ELSE writes \cup {"cache"}
    /\ UNCHANGED <<clock, net, loaded, ivars, fvars, keys, procs>>

\* ------------------------------------------ handle_sessions (session.rs)

\* session.rs 8-18: sessions --clear.
ClearSession ==
    /\ qpc \in {"idle", "done", "error"}
    /\ get_openai_api_key(keys)
    /\ clock < MaxInvocations
    /\ clock' = clock + 1
    /\ loaded' = [cache |-> cache_file, sessions |-> sessions_file]
    /\ net' = {}
    /\ session_manager' =
           IF sessions_file.active_session.some
           THEN clear_active(sessions_file) ELSE sessions_file
    /\ sessions_file' =
           IF sessions_file.active_session.some
           THEN session_manager' ELSE sessions_file
    /\ Exit("done", "clear", <<>>)
    /\ writes' = IF sessions_file.active_session.some
                THEN {"sessions"} ELSE {}
    /\ UNCHANGED <<cache_file, cache, ivars, fvars, keys, procs>>

\* session.rs 20-25: sessions --switch id.
SwitchSession(id) ==
    /\ qpc \in {"idle", "done", "error"}
    /\ get_openai_api_key(keys)
    /\ clock < MaxInvocations
    /\ clock' = clock + 1
    /\ loaded' = [cache |-> cache_file, sessions |-> sessions_file]
    /\ net' = {}
    /\ LET switched == set_active_session(sessions_file, id)
       IN  /\ session_manager' = switched.sm
           /\ sessions_file' =
                  IF switched.ok THEN session_manager' ELSE sessions_file
           /\ IF switched.ok
              THEN Exit("done", "switch", <<>>)
              ELSE Exit("error", "session", <<>>)
    /\ writes' = IF set_active_session(sessions_file, id).ok
                THEN {"sessions"} ELSE {}
    /\ UNCHANGED <<cache_file, cache, ivars, fvars, keys, procs>>

\* session.rs 27-56: sessions --list only prints.
ListSessions ==
    /\ qpc \in {"idle", "done", "error"}
    /\ get_openai_api_key(keys)
    /\ clock < MaxInvocations
    /\ clock' = clock + 1
    /\ loaded' = [cache |-> cache_file, sessions |-> sessions_file]
    /\ net' = {}
    /\ session_manager' = sessions_file
    /\ Exit("done", "list", <<>>)
    /\ writes' = {}
    /\ UNCHANGED <<cache_file, sessions_file, cache, ivars, fvars, keys, procs>>

\* ------------------------------------------------------- main (main.rs)

\* main.rs 18-43: index, query or sessions is asked for and no key is found;
\* main returns the error before it calls the handler of the command.
NoKey ==
    /\ pc \in {"idle", "done", "failed"}
    /\ qpc \in {"idle", "done", "error"}
    /\ ~get_openai_api_key(keys)
    /\ loaded' = [cache |-> cache_file, sessions |-> sessions_file]
    /\ net' = {}
    /\ writes' = {}
    /\ Exit("error", "api_key", <<>>)
    /\ UNCHANGED <<cache_file, sessions_file, clock, cache, session_manager,
                   ivars, fvars, keys, procs>>

\* Between two commands the variable of the environment or the file's key
\* changes.
SetKeys(k) ==
    /\ pc \in {"idle", "done", "failed"}
    /\ qpc \in {"idle", "done", "error"}
    /\ k # keys
    /\ keys' = k
    /\ UNCHANGED <<ivars, qvars, fvars, procs>>

\* No file is indexed; the query cache and the sessions are empty.
InitQuery == NoIndex /\ QueryInit /\ NoCall /\ KeyGiven /\ Alone

NextQuery ==
    \/ \E q \in QueryTexts, f \in Formats, a \in SessionArgs :
           StartQuery(q, f, a)
    \/ EmbedQueryFail
    \/ \E v \in QueryVectors : EmbedQuery(v)
    \/ CacheHit
    \/ CacheMiss
    \/ SearchFail
    \/ \E docs \in Documents : Search(docs)
    \/ ShowResults
    \/ AskLlm
    \/ LlmEmbedFail
    \/ \E v \in QueryVectors : LlmEmbed(v)
    \/ LlmCached
    \/ LlmUncached
    \/ \E how \in ChatFailures : ChatFail(how)
    \/ \E a \in Answers : Chat("answer", a)
    \/ \E kind \in ChatNoAnswer : Chat(kind, <<>>)
    \/ Record
    \/ ClearSession
    \/ \E id \in SessionIds : SwitchSession(id)
    \/ ListSessions

SpecQuery == InitQuery /\ [][NextQuery]_vars

\* ------------------------------- the messages of the chat call (llm/mod.rs)

\* llm/mod.rs 45.
WINDOW_SIZE == 5

Message(role, content) == [role |-> role, content |-> content]

\* usize::saturating_sub.
saturating_sub(a, b) == IF a > b THEN a - b ELSE 0

\* A context that starts at the first turn whatever the length.
start_idx_whole(session) == 0

\* llm/mod.rs 46.
start_idx(session) == saturating_sub(Len(session.queries), WINDOW_SIZE)

\* llm/mod.rs 48-58: zip of the two slices, a user and an assistant message
\* per pair, up to the pair n of the slices.
RECURSIVE Turns(_, _, _)
Turns(queries, responses, n) ==
    IF n = 0 THEN <<>>
    ELSE Turns(queries, responses, n - 1)
             \o <<Message("user", queries[n]),
                  Message("assistant", responses[n])>>

\* The note pushed at the end instead.
Insert1_pushed(messages, note) == Append(messages, note)

\* Vec::insert(1, note).
Insert1(messages, note) == <<Head(messages), note>> \o Tail(messages)

\* llm/mod.rs 35-88: the messages sent, for the active session if any.
Messages(active, prompt, context_chunks) ==
    LET first == <<Message("system", <<"assistant prompt">>)>>
        last == <<Message("user", <<"question", prompt, context_chunks>>)>>
    IN  IF ~active.some THEN first \o last
        ELSE LET session == active.value
                 from == start_idx(session)
                 qs == SubSeq(session.queries, from + 1,
                              Len(session.queries))
                 rs == SubSeq(session.responses, from + 1,
                              Len(session.responses))
                 turns == first \o Turns(qs, rs, Min(Len(qs), Len(rs)))
             IN  (IF from > 0
                  THEN Insert1(turns, Message("system", <<"note", from>>))
                  ELSE turns) \o last

\* ------------------------------------------- functions called on their own

\* The number of cache entries a function is called on.
MaxEntries == 3

\* Embeddings: (3,4) and (4,3) are at 24/25 of each other, (1,0) at 3/5 and
\* 4/5 of them, the zero vector at 0 of all, and (1) has another dimension.
Vectors == {<<3, 4>>, <<4, 3>>, <<1, 0>>, <<0, 0>>, <<1>>}

\* Thresholds in hundredths: the one of the program, 3/5 and 24/25 that some
\* pairs of Vectors reach exactly, and the two ends.
Thresholds == {0, 60, 93, 96, 100}

\* The entry inserted n-th with embedding v: its answer tells it apart.
EntryOf(n, v) == QueryCache(<<"q">>, hash_query_context(<<"q">>, <<>>), v,
                            <<"answer", n>>)

CachesOver(vectors) ==
    UNION {{[i \in 1..n |-> EntryOf(i, vs[i])] : vs \in [1..n -> vectors]} :
           n \in 0..MaxEntries}

FindInputs ==
    [fn : {"find_similar"}, entries : CachesOver(Vectors),
     embedding : Vectors, threshold : Thresholds]

InitFind ==
    /\ NoIndex
    /\ QueryInit
    /\ KeyGiven /\ Alone
    /\ input \in FindInputs
    /\ output = None

CallFindSimilar ==
    /\ input.fn = "find_similar"
    /\ ~output.some
    /\ output' = Some(find_similar(input.entries, input.embedding,
                                   input.threshold))
    /\ UNCHANGED <<ivars, qvars, input, keys, procs>>

SpecFind == InitFind /\ [][CallFindSimilar]_vars

\* Retrieved contexts: with QueryTexts, "a" and the chunk "b" have the bytes
\* of "ab" and no chunk, and the chunk "bc" those of the chunks "b", "c".
Contexts == {<<>>, <<<<"b">>>>, <<<<"c">>>>, <<<<"b", "c">>>>,
             <<<<"b">>, <<"c">>>>}

Asked == [query : QueryTexts, chunks : Contexts]

\* The cache after the queries of `asked` were answered in that order.
EntriesOf(asked) ==
    [i \in DOMAIN asked |->
        QueryCache(asked[i].query,
                   hash_query_context(asked[i].query, asked[i].chunks),
                   <<1, 0>>, <<"answer", i>>)]

ExactInputs ==
    [fn : {"get_cached_answer"},
     asked : UNION {[1..n -> Asked] : n \in 0..MaxEntries},
     query : QueryTexts, chunks : Contexts]

InitExact ==
    /\ NoIndex
    /\ QueryInit
    /\ KeyGiven /\ Alone
    /\ input \in ExactInputs
    /\ output = None

CallGetCachedAnswer ==
    /\ input.fn = "get_cached_answer"
    /\ ~output.some
    /\ output' = Some(get_cached_answer(
                          EntriesOf(input.asked), input.query,
                          hash_query_context(input.query, input.chunks)))
    /\ UNCHANGED <<ivars, qvars, input, keys, procs>>

SpecExact == InitExact /\ [][CallGetCachedAnswer]_vars

\* The number of turns of the session the context is built from.
MaxTurns == 8

\* A session after n turns: the k-th response tells the turns apart.
SessionOf(queries) ==
    [SessionState(SessionId(1), 1) EXCEPT
        !.queries = queries,
        !.responses = [k \in DOMAIN queries |-> <<"response", k>>]]

WindowInputs ==
    [fn : {"messages"},
     active : {None} \cup
              {Some(SessionOf(qs)) :
                  qs \in UNION {[1..n -> QueryTexts] : n \in 0..MaxTurns}}]

InitWindow ==
    /\ NoIndex
    /\ QueryInit
    /\ KeyGiven /\ Alone
    /\ input \in WindowInputs
    /\ output = None

CallMessages ==
    /\ input.fn = "messages"
    /\ ~output.some
    /\ output' = Some(Messages(input.active, <<"a">>, <<>>))
    /\ UNCHANGED <<ivars, qvars, input, keys, procs>>

SpecWindow == InitWindow /\ [][CallMessages]_vars

\* One command, index, query or sessions, on a directory of one file of one
\* chunk with nothing stored yet; then commands without a key, if the key is
\* taken away. With one command on an empty cache no lookup finds an answer.
InitMain ==
    /\ InitWith({"a.md"}, TwoContents, MaxRuns - 1)
    /\ QueryInitAt(MaxInvocations - 1)
    /\ NoCall
    /\ keys \in KeySources
    /\ Alone

NextMain ==
    \/ \E k \in KeySources : SetKeys(k)
    \/ NoKey
    \/ (clock < MaxInvocations /\ qpc \in {"idle", "done", "error"} /\ StartRun)
    \/ IoError
    \/ BeginFile
    \/ DispatchBatch
    \/ \E i \in DOMAIN tasks : EmbedOk(i)
    \/ \E i \in DOMAIN tasks : EmbedFail(i)
    \/ \E i \in DOMAIN tasks : UploadOk(i)
    \/ \E i \in DOMAIN tasks : UploadFail(i)
    \/ FinishFile
    \/ SaveState
    \/ \E q \in QueryTexts, f \in Formats, a \in SessionArgs :
           run < MaxRuns /\ pc = "idle" /\ StartQuery(q, f, a)
    \/ EmbedQueryFail
    \/ \E v \in QueryVectors : EmbedQuery(v)
    \/ CacheMiss
    \/ SearchFail
    \/ \E docs \in Documents : Search(docs)
    \/ ShowResults
    \/ AskLlm
    \/ LlmEmbedFail
    \/ \E v \in QueryVectors : LlmEmbed(v)
    \/ LlmUncached
    \/ \E how \in ChatFailures : ChatFail(how)
    \/ \E a \in Answers : Chat("answer", a)
    \/ \E kind \in ChatNoAnswer : Chat(kind, <<>>)
    \/ Record
    \/ (run < MaxRuns /\ pc = "idle" /\ ClearSession)
    \/ \E id \in SessionIds : run < MaxRuns /\ pc = "idle" /\ SwitchSession(id)
    \/ (run < MaxRuns /\ pc = "idle" /\ ListSessions)

SpecMain == InitMain /\ [][NextMain]_vars

----------------------------------------------------------------------------
\* The functions of the session manager (state/mod.rs 200-255) on the managers
\* of up to two sessions of at most one turn each, whose active pointer is
\* unset or names one of them.

StoredIds == {SessionId(1), SessionId(2)}

\* A stored session: created at 1, last touched at 1 or 2.
StoredSessions(id) ==
    {[SessionState(id, 1) EXCEPT
         !.queries = qs,
         !.responses = [k \in DOMAIN qs |-> <<"response", k>>],
         !.last_updated = t] :
        qs \in UNION {[1..n -> QueryTexts] : n \in 0..1}, t \in 1..2}

Managers ==
    UNION {UNION {{[sessions |-> ss, active_session |-> a] :
                      a \in {None} \cup {Some(id) : id \in ids}} :
                  ss \in {f \in [ids -> UNION {StoredSessions(id) : id \in ids}] :
                             \A id \in ids : f[id] \in StoredSessions(id)}} :
           ids \in SUBSET StoredIds}

\* The time of the call, later than every stored time.
NOW == 3

SessionInputs ==
    [fn : {"create_session"}, sm : Managers]
    \cup [fn : {"set_active_session"}, sm : Managers, id : SessionIds]
    \cup [fn : {"add_interaction"}, sm : Managers,
          query : QueryTexts, response : Answers]

InitSessions ==
    /\ NoIndex
    /\ QueryInit
    /\ KeyGiven /\ Alone
    /\ input \in SessionInputs
    /\ output = None

\* Uuid::new_v4 (line 201) is an id that no session has.
CallCreateSession ==
    /\ input.fn = "create_session"
    /\ ~output.some
    /\ \E id \in SessionIds \ DOMAIN input.sm.sessions :
           output' = Some([id |-> id, sm |-> create_session(input.sm, id, NOW)])
    /\ UNCHANGED <<ivars, qvars, input, keys, procs>>

CallSetActiveSession ==
    /\ input.fn = "set_active_session"
    /\ ~output.some
    /\ output' = Some(set_active_session(input.sm, input.id))
    /\ UNCHANGED <<ivars, qvars, input, keys, procs>>

CallAddInteraction ==
    /\ input.fn = "add_interaction"
    /\ ~output.some
    /\ output' = Some(add_interaction(input.sm, input.query, input.response, NOW))
    /\ UNCHANGED <<ivars, qvars, input, keys, procs>>

NextSessions ==
    \/ CallCreateSession
    \/ CallSetActiveSession
    \/ CallAddInteraction

SpecSessions == InitSessions /\ [][NextSessions]_vars

----------------------------------------------------------------------------
\* The three snapshots written as JSON documents and read back
\* (state/mod.rs 33-50, 95-111, 181-198). A document is a tree of values:
\* null, a number, a string, an array (ordered), an object (its members by
\* name, in no order).

JNull == [t |-> "null"]

JNumber(n) == [t |-> "number", v |-> n]

JString(str) == [t |-> "string", v |-> str]

JArray(items) == [t |-> "array", v |-> items]

JObject(members) == [t |-> "object", v |-> members]

\* derive(Serialize): a u64 or a finite f32 is a number, a String a string, a
\* Vec an array in its order, a struct an object of its fields, a HashMap an
\* object of its keys, None null and Some(x) what x is.
ser_strings(strs) == JArray([i \in DOMAIN strs |-> JString(strs[i])])

ser_floats(xs) == JArray([i \in DOMAIN xs |-> JNumber(xs[i])])

ser_option(o) == IF o.some THEN JString(o.value) ELSE JNull

ser_IndexedChunk(c) == JObject([hash |-> JString(c.hash), id |-> JString(c.id)])

ser_FileMetadata(m) ==
    JObject([last_modified |-> JNumber(m.last_modified),
             chunks |-> JArray([i \in DOMAIN m.chunks |->
                                   ser_IndexedChunk(m.chunks[i])])])

ser_IndexState(st) ==
    JObject([files |-> JObject([p \in DOMAIN st |-> ser_FileMetadata(st[p])])])

ser_QueryCache(e) ==
    JObject([query |-> JString(e.query),
             context_hash |-> JString(e.context_hash),
             embedding |-> ser_floats(e.embedding),
             answer |-> JString(e.answer)])

ser_QueryState(entries) ==
    JObject([entries |-> JArray([i \in DOMAIN entries |->
                                    ser_QueryCache(entries[i])])])

ser_SessionState(session) ==
    JObject([id |-> JString(session.id),
             queries |-> ser_strings(session.queries),
             responses |-> ser_strings(session.responses),
             created_at |-> JNumber(session.created_at),
             last_updated |-> JNumber(session.last_updated)])

ser_SessionManager(sm) ==
    JObject([sessions |-> JObject([id \in DOMAIN sm.sessions |->
                                      ser_SessionState(sm.sessions[id])]),
             active_session |-> ser_option(sm.active_session)])

\* derive(Deserialize), on a document of the right shape.
\* An array read back to front.
de_strings_reversed(j) ==
    [i \in DOMAIN j.v |-> j.v[Len(j.v) + 1 - i].v]

de_strings(j) == [i \in DOMAIN j.v |-> j.v[i].v]

de_floats(j) == [i \in DOMAIN j.v |-> j.v[i].v]

de_option(j) == IF j.t = "null" THEN None ELSE Some(j.v)

de_IndexedChunk(j) == [hash |-> j.v.hash.v, id |-> j.v.id.v]

de_FileMetadata(j) ==
    [last_modified |-> j.v.last_modified.v,
     chunks |-> [i \in DOMAIN j.v.chunks.v |->
                    de_IndexedChunk(j.v.chunks.v[i])]]

de_IndexState(j) ==
    [p \in DOMAIN j.v.files.v |-> de_FileMetadata(j.v.files.v[p])]

de_QueryCache(j) ==
    QueryCache(j.v.query.v, j.v.context_hash.v, de_floats(j.v.embedding),
               j.v.answer.v)

de_QueryState(j) ==
    [i \in DOMAIN j.v.entries.v |-> de_QueryCache(j.v.entries.v[i])]

de_SessionState(j) ==
    [id |-> j.v.id.v,
     queries |-> de_strings(j.v.queries),
     responses |-> de_strings(j.v.responses),
     created_at |-> j.v.created_at.v,
     last_updated |-> j.v.last_updated.v]

de_SessionManager(j) ==
    [sessions |-> [id \in DOMAIN j.v.sessions.v |->
                      de_SessionState(j.v.sessions.v[id])],
     active_session |-> de_option(j.v.active_session)]

\* save: the document takes the place of the file, if there was one.
save_IndexState(file, st) == Some(Saved(file, ser_IndexState(st)))

save_QueryState(file, entries) == Some(Saved(file, ser_QueryState(entries)))

save_SessionManager(file, sm) == Some(Saved(file, ser_SessionManager(sm)))

\* load: the default when there is no file, else the document read.
load_IndexState(file) ==
    IF file.some THEN de_IndexState(file.value) ELSE EmptyState

load_QueryState(file) ==
    IF file.some THEN de_QueryState(file.value) ELSE <<>>

load_SessionManager(file) ==
    IF file.some THEN de_SessionManager(file.value) ELSE NoSessions

\* The structures saved: index states of up to two files of up to two chunks
\* in either order, caches of up to MaxEntries entries, the managers above
\* and some of two turns.
StoredChunks ==
    {[hash |-> hash_chunk(<<n>>), id |-> <<"uuid", 1, 1, n>>] : n \in 2..3}

StoredFiles ==
    [last_modified : Mtimes,
     chunks : UNION {[1..n -> StoredChunks] : n \in 0..2}]

IndexStates ==
    UNION {[ps -> StoredFiles] : ps \in SUBSET {"a.md", "b.md"}}

\* Managers whose one session, the active one, has two turns.
Conversations ==
    {[sessions |-> Put(EmptyState, SessionId(1), SessionOf(qs)),
      active_session |-> Some(SessionId(1))] : qs \in [1..2 -> QueryTexts]}

SaveInputs ==
    [fn : {"IndexState"}, value : IndexStates]
    \cup [fn : {"QueryState"}, value : CachesOver(Vectors)]
    \cup [fn : {"SessionManager"}, value : Managers \cup Conversations]

\* No file yet, or the file of an earlier save of the default structure.
InitSave ==
    /\ NoIndex
    /\ QueryInit
    /\ KeyGiven /\ Alone
    /\ \E i \in SaveInputs, before \in BOOLEAN :
           input = [fn |-> i.fn, value |-> i.value, before |-> before]
    /\ output = None

SaveLoadIndexState ==
    /\ input.fn = "IndexState"
    /\ ~output.some
    /\ LET file == IF input.before
                   THEN save_IndexState(None, EmptyState) ELSE None
       IN  output' = Some(load_IndexState(save_IndexState(file, input.value)))
    /\ UNCHANGED <<ivars, qvars, input, keys, procs>>

SaveLoadQueryState ==
    /\ input.fn = "QueryState"
    /\ ~output.some
    /\ LET file == IF input.before
                   THEN save_QueryState(None, <<>>) ELSE None
       IN  output' = Some(load_QueryState(save_QueryState(file, input.value)))
    /\ UNCHANGED <<ivars, qvars, input, keys, procs>>

SaveLoadSessionManager ==
    /\ input.fn = "SessionManager"
    /\ ~output.some
    /\ LET file == IF input.before
                   THEN save_SessionManager(None, NoSessions) ELSE None
       IN  output' =
               Some(load_SessionManager(save_SessionManager(file, input.value)))
    /\ UNCHANGED <<ivars, qvars, input, keys, procs>>

NextSave ==
    \/ SaveLoadIndexState
    \/ SaveLoadQueryState
    \/ SaveLoadSessionManager

SpecSave == InitSave /\ [][NextSave]_vars

----------------------------------------------------------------------------
\* chunk_text (utils/mod.rs 81-88) on the lines of a text. A line is a
\* sequence of characters without a newline; a chunk is a sequence of
\* characters.

CHUNK_LINES == 10

MaxLines == 25

Whitespace == {" ", "\n"}

\* The w-th of the slices of .chunks(10): ten lines, or what is left.
Window(lines, w) ==
    SubSeq(lines, CHUNK_LINES * (w - 1) + 1, Min(CHUNK_LINES * w, Len(lines)))

\* The number of slices.
WindowCount(lines) == (Len(lines) + CHUNK_LINES - 1) \div CHUNK_LINES

RECURSIVE Join(_)
\* chunk.join("\n")
Join(window) ==
    IF window = <<>> THEN <<>>
    ELSE IF Len(window) = 1 THEN window[1]
    ELSE window[1] \o <<"\n">> \o Join(Tail(window))

\* chunk.trim().is_empty()
TrimIsEmpty(chunk) == \A i \in DOMAIN chunk : chunk[i] \in Whitespace

\* The windows joined, none dropped.
chunk_lines_unfiltered(lines) ==
    [w \in 1..WindowCount(lines) |-> Join(Window(lines, w))]

\* Lines 82-87: the lines in slices of ten, each joined, the empty ones
\* filtered out.
chunk_lines(lines) ==
    SelectSeq([w \in 1..WindowCount(lines) |-> Join(Window(lines, w))],
              LAMBDA chunk : ~TrimIsEmpty(chunk))

\* Texts of up to MaxLines lines: line k is one letter, or nothing or a space
\* where the text is blank: in some whole windows and on one more line.
Letter(k) == <<<<"a">>, <<"b">>, <<"c">>>>[(k % 3) + 1]

LinesOf(n, blank) ==
    [k \in 1..n |->
        IF k \in blank THEN (IF k % 2 = 0 THEN <<>> ELSE <<" ">>) ELSE Letter(k)]

BlankSets ==
    {UNION {(CHUNK_LINES * (w - 1) + 1)..(CHUNK_LINES * w) : w \in ws} \cup one :
        ws \in SUBSET (1..3),
        one \in {{}} \cup {{k} : k \in {1, 5, 10, 11, 20, 21}}}

ChunkInputs ==
    {[fn |-> "chunk_text", lines |-> LinesOf(n, blank)] :
        n \in 0..MaxLines, blank \in BlankSets}

InitChunk ==
    /\ NoIndex
    /\ QueryInit
    /\ KeyGiven /\ Alone
    /\ input \in ChunkInputs
    /\ output = None

CallChunkText ==
    /\ input.fn = "chunk_text"
    /\ ~output.some
    /\ output' = Some(chunk_lines(input.lines))
    /\ UNCHANGED <<ivars, qvars, input, keys, procs>>

SpecChunk == InitChunk /\ [][CallChunkText]_vars

\* ------------------------ two query commands at once on one state directory

\* Nothing in state/mod.rs or query.rs locks the files: each command loads
\* both snapshots (query.rs 17-19, llm/mod.rs 16), works on its own copies
\* and writes them back whole (state/mod.rs 105-111, 191-198). The commands
\* are two processes; the steps below are the places where a process reads
\* or writes a file, in the order of handle_query with --format smart and
\* every service answering.

Procs == 1..2

\* What command p asks; the two texts differ.
QueryOf(p) == IF p = 1 THEN <<"a">> ELSE <<"a", "b">>

\* One session exists and is the active one.
OneSession == create_session(NoSessions, SessionId(0), 0)

\* The command p takes a step and everything but the files stays.
Step(p, next) ==
    /\ procs' = [procs EXCEPT ![p] = next]
    /\ UNCHANGED <<clock, qpc, hq, cache, session_manager, llm, shown, net,
                   loaded, writes, ivars, fvars, keys>>

\* query.rs 17-39: command p loads the two snapshots, settles its session
\* (a new one gets an id of its own) and has its query embedded as v.
RaceStart(p, session, v) ==
    /\ procs[p].pc = "idle"
    /\ get_openai_api_key(keys)
    /\ Step(p, [procs[p] EXCEPT
                   !.pc = "lookup",
                   !.query = QueryOf(p),
                   !.query_embedding = v,
                   !.cache = cache_file,
                   !.session_manager = Sessioned(sessions_file, session, p).sm])
    /\ UNCHANGED <<cache_file, sessions_file>>

\* query.rs 42-53: the cache that p loaded has a similar entry; the turn is
\* pushed on the active session and the sessions are saved.
RaceHit(p) ==
    /\ procs[p].pc = "lookup"
    /\ LET similar == find_similar(procs[p].cache, procs[p].query_embedding,
                                   SIMILARITY)
           sm == record_cached(procs[p].session_manager, procs[p].query,
                               similar.value)
       IN  /\ similar.some
           /\ sessions_file' = sm
           /\ Step(p, [procs[p] EXCEPT !.pc = "done",
                          !.session_manager = sm, !.answer = similar.value])
    /\ UNCHANGED cache_file

\* query.rs 42, 55-94, 129; llm/mod.rs 16-21: no entry is similar enough;
\* after the search get_llm_response loads the cache file again.
RaceAskLlm(p) ==
    /\ procs[p].pc = "lookup"
    /\ ~find_similar(procs[p].cache, procs[p].query_embedding,
                     SIMILARITY).some
    /\ Step(p, [procs[p] EXCEPT !.pc = "llm_lookup", !.state = cache_file])
    /\ UNCHANGED <<cache_file, sessions_file>>

\* llm/mod.rs 23-30 on the cache of get_llm_response; no document is
\* retrieved for either command.
RaceLookup(p) ==
    LET similar == find_similar(procs[p].state, procs[p].query_embedding,
                                SIMILARITY)
    IN  IF similar.some THEN similar
        ELSE get_cached_answer(procs[p].state, procs[p].query,
                               hash_query_context(procs[p].query, <<>>))

\* llm/mod.rs 23-30: an answer of the cache loaded at line 16 is returned.
RaceLlmCached(p) ==
    /\ procs[p].pc = "llm_lookup"
    /\ RaceLookup(p).some
    /\ Step(p, [procs[p] EXCEPT !.pc = "insert",
                   !.answer = RaceLookup(p).value])
    /\ UNCHANGED <<cache_file, sessions_file>>

\* llm/mod.rs 96-114: the model answers; the answer is inserted into the
\* cache of get_llm_response, which is saved.
RaceChat(p, content) ==
    /\ procs[p].pc = "llm_lookup"
    /\ ~RaceLookup(p).some
    /\ LET inserted == insert_answer(
                           procs[p].state, procs[p].query,
                           hash_query_context(procs[p].query, <<>>),
                           procs[p].query_embedding, content)
       IN  /\ cache_file' = Saved(cache_file, inserted)
           /\ Step(p, [procs[p] EXCEPT !.pc = "insert", !.state = inserted,
                          !.answer = content])
    /\ UNCHANGED sessions_file

\* query.rs 136-140: the answer is inserted into the cache loaded at line
\* 18, which is saved.
RaceSaveCache(p) ==
    /\ procs[p].pc = "insert"
    /\ LET inserted == insert_answer(
                           procs[p].cache, procs[p].query,
                           hash_query_context(procs[p].query, <<>>),
                           procs[p].query_embedding, procs[p].answer)
       IN  /\ cache_file' = Saved(cache_file, inserted)
           /\ Step(p, [procs[p] EXCEPT !.pc = "turn", !.cache = inserted])
    /\ UNCHANGED sessions_file

\* query.rs 143-144: the turn is added to the active session of the manager
\* loaded at line 19, which is saved.
RaceSaveSessions(p) ==
    /\ procs[p].pc = "turn"
    /\ LET added == add_interaction(procs[p].session_manager, procs[p].query,
                                    procs[p].answer, p)
       IN  /\ added.ok
           /\ sessions_file' = added.sm
           /\ Step(p, [procs[p] EXCEPT !.pc = "done",
                          !.session_manager = added.sm])
    /\ UNCHANGED cache_file

\* Earlier commands left the manager sm in the sessions file.
Stored(sm) ==
    /\ procs = [p \in Procs |-> NotStarted]
    /\ qpc = "idle"
    /\ clock = 0
    /\ sessions_file = NoSessions
    /\ sessions_file' = sm
    /\ UNCHANGED <<cache_file, clock, qpc, hq, cache, session_manager, llm,
                   shown, net, loaded, writes, ivars, fvars, keys, procs>>

\* Both commands are about to start on an empty state directory.
InitRace == NoIndex /\ QueryInit /\ NoCall /\ KeyGiven /\ Alone

NextRace ==
    \/ Stored(OneSession)
    \/ \E p \in Procs, a \in {None, Some(NewSession)},
          v \in {<<3, 4>>, <<1, 0>>} : RaceStart(p, a, v)
    \/ \E p \in Procs : RaceHit(p)
    \/ \E p \in Procs : RaceAskLlm(p)
    \/ \E p \in Procs : RaceLlmCached(p)
    \/ \E p \in Procs, content \in Answers : RaceChat(p, content)
    \/ \E p \in Procs : RaceSaveCache(p)
    \/ \E p \in Procs : RaceSaveSessions(p)

SpecRace == InitRace /\ [][NextRace]_vars

\* ------------------------- handle_sessions on the sessions of earlier commands

NextStored ==
    \/ \E sm \in Managers : Stored(sm)
    \/ ClearSession
    \/ \E id \in SessionIds : SwitchSession(id)
    \/ ListSessions

SpecStored == InitQuery /\ [][NextStored]_vars

\* -------------------------------------------------------------- properties

\* A changed file has been processed without error: lines 44-106 have run
\* for visit.path and the loop has not gone on.
FileProcessed == pc = "loop" /\ visit.kind = "process"

\* The chunk list stored for the visited file when the run began.
OldChunks == get_file_chunks(persisted, visit.path)

\* O: the hash set stored for the visited file when the run began.
OldHashes == {c.hash : c \in Range(OldChunks)}

\* The chunks of the visited file's current text that the run retains.
RetainedTexts ==
    {t \in Range(fsys[visit.path].content) :
        ~IsBlank(t) /\ ChunkLen(t) <= MaxChunkChars}

\* N: the hash set of the new chunking.
NewHashes == {hash_chunk(t) : t \in RetainedTexts}

\* The chunk list the state in memory holds for the visited file.
RecordChunks == get_file_chunks(state, visit.path)

EmbeddedTexts == {e[2] : e \in calls.embed}

UploadedTexts == {e[2] : e \in calls.add}

\* The pipelines started and not yet completed.
InFlight == calls.start \ DOMAIN results

BatchOf(i) == ((i - 1) \div BATCH_SIZE) + 1

\* C1: once a changed file is processed, the deletes asked of the vector
\* store are those of the ids of the stored chunks whose hash is in O and not
\* in N, and no others.
C1_StaleChunksDeleted ==
    FileProcessed =>
        calls.delete = {c.id : c \in {d \in Range(OldChunks) :
                                        d.hash \notin NewHashes}}

\* C2: once a changed file is processed, its stored chunk list is the stored
\* chunks whose hash is still in the new chunking together with the chunks
\* embedded and uploaded in this run.
C2_RecordIsKeptPlusNew ==
    FileProcessed =>
        Range(RecordChunks) =
            {c \in Range(OldChunks) : c.hash \in NewHashes}
                \cup Range(new_chunks)

\* C3: once a changed file is processed, its stored last_modified is the
\* file's modification time, whatever the number of new chunks.
C3_LastModifiedUpdated ==
    FileProcessed =>
        /\ visit.path \in DOMAIN state
        /\ get_last_modified(state, visit.path) = fsys[visit.path].mtime

\* C4: while and after a file whose modification time equals the stored
\* last_modified is visited, no pipeline is started, no embedding call, no
\* add and no delete is made, and its record is as it was loaded.
C4_UnchangedFileUntouched ==
    (/\ pc \in {"loop", "batch"}
     /\ visit.kind # "none"
     /\ visit.path \in DOMAIN persisted
     /\ persisted[visit.path].last_modified = fsys[visit.path].mtime)
        => /\ calls = NoCalls
           /\ visit.path \in DOMAIN state
           /\ state[visit.path] = persisted[visit.path]

\* C4, its case: an unchanged file with stored chunks has been skipped.
C4_Witness ==
    /\ pc = "loop"
    /\ visit.kind = "skip"
    /\ visit.path \in DOMAIN persisted
    /\ persisted[visit.path].last_modified = fsys[visit.path].mtime
    /\ persisted[visit.path].chunks # <<>>
    /\ Range(chunk_text(fsys[visit.path].content)) # {}

DistinctHashes(chunks) ==
    \A i, j \in DOMAIN chunks : chunks[i].hash = chunks[j].hash => i = j

\* C5: in every index state, in memory or saved, the chunk hashes of one
\* file record are pairwise distinct.
C5_HashesDistinct ==
    /\ \A f \in DOMAIN state : DistinctHashes(state[f].chunks)
    /\ \A f \in DOMAIN persisted : DistinctHashes(persisted[f].chunks)

\* C6 as stated: once a changed file is processed, an embedding call and an
\* upload have been made for a retained chunk exactly if its hash is not in O.
C6_EmbedAndUploadIffNew ==
    FileProcessed =>
        \A t \in RetainedTexts :
            (t \in EmbeddedTexts /\ t \in UploadedTexts)
                <=> hash_chunk(t) \notin OldHashes

\* C6 as amended: once a changed file is processed, an embedding call has been
\* made for a retained chunk exactly if its hash is not in O, for no other
\* text, and an upload exactly for the pipelines whose embedding call
\* succeeded.
C6_EmbedIffNewUploadIfEmbedded ==
    FileProcessed =>
        /\ \A t \in RetainedTexts :
              t \in EmbeddedTexts <=> hash_chunk(t) \notin OldHashes
        /\ EmbeddedTexts \subseteq RetainedTexts
        /\ \A e \in calls.embed :
              e \in calls.add <=> results[e[1]] # "embed_err"
        /\ calls.add \subseteq calls.embed

\* C6, its case: a file with a stored and a new chunk has been processed, and
\* the embedding of the new chunk has failed, so that no upload was made.
C6_Witness ==
    /\ FileProcessed
    /\ \E t \in RetainedTexts : hash_chunk(t) \in OldHashes
    /\ \E e \in calls.embed : results[e[1]] = "embed_err"
    /\ calls.add = {}

\* C7: once a changed file is processed, every stored chunk whose hash is
\* also in the new chunking is in the record with the id and hash it had, and
\* no delete has been asked for its id.
C7_UnchangedChunkKept ==
    FileProcessed =>
        \A c \in Range(OldChunks) :
            c.hash \in NewHashes =>
                /\ c \in Range(RecordChunks)
                /\ c.id \notin calls.delete
                /\ c.id \in remote

\* C7, its case: the record has been replaced (a new chunk was uploaded)
\* while a stored chunk's hash is still in the new chunking.
C7_Witness ==
    /\ FileProcessed
    /\ new_chunks # <<>>
    /\ \E c \in Range(OldChunks) : c.hash \in NewHashes

\* C8: at every point of a run at most BATCH_SIZE pipelines have started and
\* not completed.
C8_InFlightBounded == Cardinality(InFlight) <= BATCH_SIZE

\* C8, its case: a full batch is in flight while more chunks wait.
C8_Witness ==
    /\ Cardinality(InFlight) = BATCH_SIZE
    /\ Len(chunk_info) > BATCH_SIZE

\* C9: whenever a pipeline has started, every pipeline of an earlier batch
\* of the file has completed.
C9_BatchDrainsFirst ==
    \A i \in calls.start :
        \A j \in 1..Len(chunk_info) :
            BatchOf(j) < BatchOf(i) => j \in DOMAIN results

\* C9, its case: a pipeline of the second batch has started after pipelines
\* of the first have failed and succeeded.
C9_Witness ==
    /\ \E i \in InFlight : BatchOf(i) = 2
    /\ \E j \in DOMAIN results : BatchOf(j) = 1 /\ results[j] # "ok"
    /\ \E j \in DOMAIN results : BatchOf(j) = 1 /\ results[j] = "ok"

\* C10: a failed pipeline takes no other pipeline with it: every started
\* pipeline is in flight or has completed, once the file is processed every
\* pipeline of chunk_info has completed, and the chunks recorded for the file
\* in this run are those of the pipelines that succeeded.
C10_FailureIsPerPipeline ==
    /\ pc = "batch" => calls.start = DOMAIN tasks \cup DOMAIN results
    /\ FileProcessed =>
          /\ DOMAIN results = 1..Len(chunk_info)
          /\ LET recorded == Range(RecordChunks) \ Range(OldChunks)
             IN  /\ Cardinality(recorded) = Cardinality(Succeeded(results))
                 /\ {c.hash : c \in recorded} =
                        {chunk_info[i].hash : i \in Succeeded(results)}
                 /\ Ids(SelectSeq(RecordChunks,
                        LAMBDA c : c \notin Range(OldChunks))) \subseteq remote

\* C10, its case: in the first batch one pipeline failed at embedding, one at
\* upload and one succeeded, and the pipeline of the second batch succeeded.
C10_Witness ==
    /\ FileProcessed
    /\ \E i \in DOMAIN results : BatchOf(i) = 1 /\ results[i] = "embed_err"
    /\ \E i \in DOMAIN results : BatchOf(i) = 1 /\ results[i] = "upload_err"
    /\ \E i \in DOMAIN results : BatchOf(i) = 1 /\ results[i] = "ok"
    /\ \E i \in DOMAIN results : BatchOf(i) = 2 /\ results[i] = "ok"

\* While a file is being processed the failures noted for it are those of
\* an earlier run (each file is visited once per run, and they are noted
\* when its visit ends), and its mtime has not changed since.
RetriedUnchanged ==
    /\ pc = "batch"
    /\ \E e \in calls.embed : <<visit.path, e[2]>> \in history

\* C11: a chunk whose pipeline failed is not attempted again while the file's
\* modification time is what it was at the failure: no embedding call is for
\* a chunk of the visited file whose pipeline failed when an earlier run
\* last processed the file, unless the mtime has changed since then.

C11_FailedChunkNotRetried == ~RetriedUnchanged

\* C12: the index-state snapshot is written only by the save at the end of
\* the loop over the files, with the state of the run, so at most once per
\* run; a step that aborts the run, and every other step, leaves the
\* snapshot as it was loaded.
C12_SnapshotWrittenOnceAtEnd ==
    [][persisted' # persisted =>
          /\ pc = "loop" /\ fidx > Len(paths)
          /\ pc' = "done"
          /\ persisted' = state]_vars

\* A run has aborted at the second file after an upload for the first one:
\* the id is in the vector store and in no record of the snapshot.
C12_Witness ==
    /\ pc = "failed"
    /\ \E id \in remote :
          /\ id[2] = run
          /\ \A p \in DOMAIN persisted : id \notin Ids(persisted[p].chunks)

\* The entries find_similar may return: same dimension as the embedding and
\* a similarity strictly above the threshold.
Sim(i) == cosine_similarity(input.entries[i].embedding, input.embedding)

SameDim(i) == Len(input.entries[i].embedding) = Len(input.embedding)

AtThreshold(i) ==
    Sim(i).num * HUNDRED = input.threshold * Sim(i).den

Eligible ==
    {i \in DOMAIN input.entries :
        SameDim(i) /\ Greater(Sim(i), Threshold(input.threshold))}

\* C14: find_similar returns an answer iff some entry of the same
\* dimensionality has a similarity strictly greater than the threshold; the
\* answer is the one of an entry of maximal similarity among those; an entry
\* whose similarity equals the threshold or whose dimensionality differs is
\* never the one returned.
C14_FindSimilar ==
    (input.fn = "find_similar" /\ output.some) =>
    LET found == output.value
    IN  /\ found.some <=> Eligible # {}
        /\ found.some =>
              \E i \in Eligible :
                  /\ input.entries[i].answer = found.value
                  /\ \A j \in Eligible : ~Greater(Sim(j), Sim(i))
        /\ \A i \in DOMAIN input.entries :
              (~SameDim(i) \/ AtThreshold(i))
                  => found # Some(input.entries[i].answer)

\* An answer is returned from a cache that also holds an entry exactly at
\* the threshold and an entry of another dimension.
C14_Witness ==
    /\ input.fn = "find_similar" /\ output.some /\ output.value.some
    /\ \E i \in DOMAIN input.entries : ~SameDim(i)
    /\ \E i \in DOMAIN input.entries :
          SameDim(i) /\ AtThreshold(i)

\* The two context lists have the same length and differ in one chunk.
OneChunkChanged(c, d) ==
    /\ Len(c) = Len(d)
    /\ Cardinality({k \in DOMAIN c : c[k] # d[k]}) = 1

SameQuery(i) == input.asked[i].query = input.query

SameHash(i) ==
    EntriesOf(input.asked)[i].context_hash =
        hash_query_context(input.query, input.chunks)

\* C15: get_cached_answer returns an answer iff some entry has both the
\* query text and the context hash asked for, and then the answer of such an
\* entry; an entry of the same query whose context differs in one chunk has
\* another context hash, so it is not a match.
C15_ExactMatch ==
    (input.fn = "get_cached_answer" /\ output.some) =>
    LET found == output.value
        both == {i \in DOMAIN input.asked : SameQuery(i) /\ SameHash(i)}
    IN  /\ found.some <=> both # {}
        /\ found.some =>
              \E i \in both : found.value = EntriesOf(input.asked)[i].answer
        /\ \A i \in DOMAIN input.asked :
              (SameQuery(i) /\
               OneChunkChanged(input.asked[i].chunks, input.chunks))
                  => ~SameHash(i)

\* A miss on a cache that holds an entry of the same query with one context
\* chunk changed, and an entry of the same context hash with another query.
C15_Witness ==
    /\ input.fn = "get_cached_answer" /\ output = Some(None)
    /\ \E i \in DOMAIN input.asked :
          SameQuery(i) /\ OneChunkChanged(input.asked[i].chunks, input.chunks)
    /\ \E i \in DOMAIN input.asked : ~SameQuery(i) /\ SameHash(i)

\* C13: when find_similar(query_embedding, 0.93) has an answer in
\* handle_query, the only network call of the invocation is the embedding of
\* the query, the next step ends the command with no further call, and the
\* answer shown is the one find_similar gave from the cache as it was loaded.
C13_CacheHitShortCircuits ==
    /\ [](qpc = "lookup" => net = {"embedding"} /\ cache = loaded.cache)
    /\ [][(qpc = "lookup" /\
            find_similar(cache, hq.query_embedding, SIMILARITY).some)
           => /\ qpc' = "done"
              /\ net' = net
              /\ shown' = Some([origin |-> "cache", answer |->
                     find_similar(cache, hq.query_embedding,
                                  SIMILARITY).value])]_vars

\* A query has been answered from the cache by an entry that an earlier
\* query, answered by the LLM, has left there.
C13_Witness ==
    /\ qpc = "done"
    /\ shown.some /\ shown.value.origin = "cache"
    /\ \E i \in DOMAIN cache_file : cache_file[i].answer = shown.value.answer
    /\ net = {"embedding"}

\* `after` is `before` with one entry more at the end.
IsPush(before, after) ==
    /\ Len(after) = Len(before) + 1
    /\ SubSeq(after, 1, Len(before)) = before

\* C16: the entry list of a QueryState only grows at its end. Each of the
\* two inserts (get_llm_response's after the chat call, handle_query's when
\* it records the answer) adds exactly one entry, also when the query and
\* context hash are already there, and keeps the earlier entries as a prefix;
\* no other step changes the list of a QueryState that is in use (a list
\* only comes into being by a load and goes when its owner returns).
C16_CacheAppendOnly ==
    [][/\ (qpc = "chat" /\ qpc' = "record") => IsPush(llm.state, llm'.state)
       /\ qpc = "record" => IsPush(cache, cache')
       /\ cache' # cache => clock' # clock \/ IsPush(cache, cache')
       /\ llm'.state # llm.state =>
              \/ qpc = "format"
              \/ qpc' \in {"done", "error"}
              \/ IsPush(llm.state, llm'.state)]_vars

\* The cache holds two entries of the same query and context hash.
C16_Witness ==
    \E i, j \in DOMAIN cache :
        /\ i < j
        /\ cache[i].query = cache[j].query
        /\ cache[i].context_hash = cache[j].context_hash

\* C17: when a smart query has missed the cache and the LLM has answered,
\* the step in which handle_query records the answer leaves in the cache
\* file the entries that were there when the command started followed by
\* one entry for this query, although get_llm_response has already saved
\* its own copy with its own insert.
C17_ExactlyOneNewEntry ==
    [][(qpc = "record" /\ llm.chat = "answer")
       => /\ cache_file = Append(loaded.cache, llm.state[Len(llm.state)])
          /\ cache_file' =
                 Append(loaded.cache,
                        QueryCache(hq.query,
                                   hash_query_context(hq.query,
                                                      hq.context_chunks),
                                   hq.query_embedding, llm.answer))]_vars

\* The LLM has answered a query made with a non-empty cache: the file holds
\* one entry more than at the start.
C17_Witness ==
    /\ qpc = "done"
    /\ shown.some /\ shown.value.origin = "answer"
    /\ loaded.cache # <<>>
    /\ Len(cache_file) = Len(loaded.cache) + 1

\* C18: a chat call that ends without an answer (no response, a body that is
\* not JSON, a non-success status, a body with no content) ends the command
\* with an error, and the cache and the sessions are as they were when the
\* command started.
C18_FailedChatAddsNothing ==
    (shown.some /\ shown.value.origin \in ChatFailures \cup ChatNoAnswer)
        => /\ qpc = "error"
           /\ cache_file = loaded.cache
           /\ sessions_file = loaded.sessions

Balanced(sm) ==
    \A id \in DOMAIN sm.sessions :
        Len(sm.sessions[id].queries) = Len(sm.sessions[id].responses)

\* C19: in the SessionManager in memory and in the one on file, every
\* session has as many queries as responses.
C19_QueriesMatchResponses == Balanced(session_manager) /\ Balanced(sessions_file)

\* A session holds a turn answered by the LLM and a turn answered from the
\* cache.
C19_Witness ==
    /\ shown.some /\ shown.value.origin = "cache"
    /\ \E id \in DOMAIN sessions_file.sessions :
          Len(sessions_file.sessions[id].queries) = 2

\* The user and assistant messages that come before the question.
TurnMessages(messages) ==
    SelectSeq(SubSeq(messages, 1, Len(messages) - 1),
              LAMBDA m : m.role # "system")

\* C20: built from an active session of n turns, the messages hold the last
\* min(n, 5) turns, each as the user message followed by the assistant
\* message, in the order of the session, and no other turn.
C20_LastFiveTurns ==
    (input.fn = "messages" /\ output.some /\ input.active.some) =>
    LET session == input.active.value
        n == Len(session.queries)
        w == Min(n, WINDOW_SIZE)
        turns == TurnMessages(output.value)
    IN  /\ Len(turns) = 2 * w
        /\ \A k \in 1..w :
              /\ turns[2 * k - 1] = Message("user", session.queries[n - w + k])
              /\ turns[2 * k] =
                     Message("assistant", session.responses[n - w + k])

\* The context of a session of 8 turns has been built.
C20_Witness ==
    /\ input.fn = "messages" /\ output.some /\ input.active.some
    /\ Len(input.active.value.queries) = 8
    /\ Len(TurnMessages(output.value)) = 2 * WINDOW_SIZE

\* The synthetic note of llm/mod.rs 62-71.
IsNote(m) == m.role = "system" /\ m.content[1] = "note"

\* C21: built from a session of n turns, the messages hold exactly one note,
\* citing n - 5 omitted turns, when n > 5, and none when n <= 5 (or when no
\* session is active); the note is the second message, right after the
\* system prompt and before the windowed turns.
C21_OneNoteAfterPrompt ==
    (input.fn = "messages" /\ output.some) =>
    LET messages == output.value
        n == IF input.active.some THEN Len(input.active.value.queries) ELSE 0
        notes == {k \in DOMAIN messages : IsNote(messages[k])}
    IN  /\ messages[1] = Message("system", <<"assistant prompt">>)
        /\ IF n > WINDOW_SIZE
           THEN /\ notes = {2}
                /\ messages[2].content = <<"note", n - WINDOW_SIZE>>
                /\ \A k \in 3..Len(messages) : messages[k].role # "system"
           ELSE notes = {}

\* The context of a session of 8 turns holds the note citing 3.
C21_Witness ==
    /\ input.fn = "messages" /\ output.some /\ input.active.some
    /\ Len(input.active.value.queries) = 8
    /\ output.value[2] = Message("system", <<"note", 3>>)


\* C22: create_session returns an id that was no key before, maps it to a
\* session without turns whose created_at equals its last_updated, makes it the
\* active session, and leaves every session that existed as it was.
C22_CreateSession ==
    (input.fn = "create_session" /\ output.some) =>
    LET before == input.sm
        id == output.value.id
        after == output.value.sm
    IN  /\ id \notin DOMAIN before.sessions
        /\ DOMAIN after.sessions = DOMAIN before.sessions \cup {id}
        /\ after.sessions[id].id = id
        /\ after.sessions[id].queries = <<>>
        /\ after.sessions[id].responses = <<>>
        /\ after.sessions[id].created_at = after.sessions[id].last_updated
        /\ after.active_session = Some(id)
        /\ \A k \in DOMAIN before.sessions : after.sessions[k] = before.sessions[k]

\* A session is created next to two others, one of which was active.
C22_Witness ==
    /\ input.fn = "create_session" /\ output.some
    /\ DOMAIN input.sm.sessions = StoredIds
    /\ input.sm.active_session = Some(SessionId(1))
    /\ output.value.sm.active_session = Some(output.value.id)

\* C24: add_interaction with an active session appends one element at the end
\* of its queries and one at the end of its responses, sets its last_updated
\* to the current time, and changes no other session nor the active pointer.
C24_AddInteraction ==
    (input.fn = "add_interaction" /\ output.some
        /\ get_active_session(input.sm).some) =>
    LET before == input.sm
        id == before.active_session.value
        after == output.value.sm
    IN  /\ output.value.ok
        /\ DOMAIN after.sessions = DOMAIN before.sessions
        /\ after.sessions[id].queries =
               Append(before.sessions[id].queries, input.query)
        /\ after.sessions[id].responses =
               Append(before.sessions[id].responses, input.response)
        /\ after.sessions[id].last_updated = NOW
        /\ after.sessions[id].created_at = before.sessions[id].created_at
        /\ after.sessions[id].id = id
        /\ \A k \in DOMAIN before.sessions \ {id} :
               after.sessions[k] = before.sessions[k]
        /\ after.active_session = before.active_session

\* A second turn is added to the active one of two sessions.
C24_Witness ==
    /\ input.fn = "add_interaction" /\ output.some
    /\ DOMAIN input.sm.sessions = StoredIds
    /\ input.sm.active_session = Some(SessionId(2))
    /\ Len(input.sm.sessions[SessionId(2)].queries) = 1
    /\ Len(output.value.sm.sessions[SessionId(2)].queries) = 2

\* C25: add_interaction without an active session is an error and leaves the
\* session manager, sessions and pointer, as it was.
C25_NoActiveSession ==
    (input.fn = "add_interaction" /\ output.some
        /\ ~input.sm.active_session.some) =>
    /\ ~output.value.ok
    /\ output.value.sm = input.sm

\* The call failed on a manager that holds sessions but no active one.
C25_Witness ==
    /\ input.fn = "add_interaction" /\ output.some
    /\ input.sm.sessions # EmptyState
    /\ ~input.sm.active_session.some
    /\ ~output.value.ok

\* Neither the environment nor the configuration file holds a key.
NoKeyAvailable ==
    /\ keys.env \in {"unset", "empty"}
    /\ keys.config \in {"unset", "empty"}

\* C27: a command (index, query or sessions) run while no API key is available
\* fails with no network request (embedding, chat, vector store) issued and no
\* snapshot (index state, query cache, sessions) written.
C27_NoKeyNoEffect ==
    [][(NoKeyAvailable /\ keys' = keys) =>
         /\ qpc' = "error" /\ shown' = Some([origin |-> "api_key", answer |-> <<>>])
         /\ net' = {} /\ calls' = NoCalls /\ remote' = remote
         /\ writes' = {}
         /\ persisted' = persisted
         /\ cache_file' = cache_file
         /\ sessions_file' = sessions_file]_vars

\* A command has failed for want of a key after an earlier query had stored
\* an answer and a session.
C27_Witness ==
    /\ NoKeyAvailable
    /\ qpc = "error" /\ shown = Some([origin |-> "api_key", answer |-> <<>>])
    /\ cache_file # <<>>
    /\ sessions_file # NoSessions
    /\ net = {} /\ writes = {}

\* C23: set_active_session with an id that is no key of sessions is an error
\* and leaves the sessions and the active pointer as they were; reached by
\* query --session id or sessions --switch id, the command fails with no
\* network call made and neither sessions.json nor query_cache.json written.
C23_UnknownSessionRejected ==
    [][\A id \in SessionIds \ DOMAIN sessions_file.sessions :
         /\ set_active_session(sessions_file, id) =
                [ok |-> FALSE, sm |-> sessions_file]
         /\ (\/ \E q \in QueryTexts, f \in Formats : StartQuery(q, f, Some(id))
             \/ SwitchSession(id)) =>
                /\ qpc' = "error"
                /\ shown' = Some([origin |-> "session", answer |-> <<>>])
                /\ session_manager' = sessions_file
                /\ net' = {}
                /\ writes' = {}
                /\ sessions_file' = sessions_file
                /\ cache_file' = cache_file]_vars

\* A command naming an unknown session has failed, after an earlier query
\* had stored an answer and a session.
C23_Witness ==
    /\ qpc = "error" /\ shown = Some([origin |-> "session", answer |-> <<>>])
    /\ net = {} /\ writes = {}
    /\ cache_file # <<>>
    /\ sessions_file.active_session.some
    /\ session_manager = sessions_file

\* C26: a query given no --session while no session is active creates a
\* session and makes it active, and when the query ends with success that
\* session is present and active in sessions.json, whatever the format and
\* whether the answer came from the cache or not.
C26_ImplicitSessionPersisted ==
    [][(/\ qpc \in {"lookup", "format", "record"}
        /\ ~hq.session.some
        /\ ~loaded.sessions.active_session.some
        /\ qpc' = "done") =>
            LET id == session_manager.active_session
            IN  /\ id.some
                /\ id.value \notin DOMAIN loaded.sessions.sessions
                /\ id.value \in DOMAIN session_manager.sessions
                /\ sessions_file'.active_session = id
                /\ id.value \in DOMAIN sessions_file'.sessions]_vars

NotCollected == DOMAIN persisted \ Range(paths)

\* C29: an indexing run leaves the record, last_modified and chunk list, of
\* every path that is in the index state and not among the files it collected
\* as it was: the record is never removed, neither in memory nor in the
\* snapshot, and no delete is asked for its chunks, which stay in the store.
C29_UncollectedRecordKept ==
    [][(pc \in {"loop", "batch"}) =>
         \A p \in NotCollected :
            /\ p \in DOMAIN state /\ state[p] = persisted[p]
            /\ p \in DOMAIN persisted' /\ persisted'[p] = persisted[p]
            /\ Ids(persisted[p].chunks) \cap calls'.delete = {}
            /\ Ids(persisted[p].chunks) \cap remote \subseteq remote']_vars

\* The second run has ended with a new record for b.md while the record of
\* a.md, deleted after the first run, is still there with its chunk stored.
C29_Witness ==
    /\ pc = "done" /\ run = 2
    /\ DOMAIN fsys = {"b.md"}
    /\ DOMAIN persisted = {"a.md", "b.md"}
    /\ persisted["a.md"].last_modified = 1
    /\ persisted["b.md"].last_modified = 2
    /\ Ids(persisted["a.md"].chunks) # {}
    /\ Ids(persisted["a.md"].chunks) \subseteq remote

RECURSIVE Split(_)
\* The lines of a chunk: what the newlines separate.
Split(chunk) ==
    IF \A i \in DOMAIN chunk : chunk[i] # "\n" THEN <<chunk>>
    ELSE LET at == CHOOSE i \in DOMAIN chunk :
                       chunk[i] = "\n" /\ \A j \in 1..(i - 1) : chunk[j] # "\n"
         IN  <<SubSeq(chunk, 1, at - 1)>>
                 \o Split(SubSeq(chunk, at + 1, Len(chunk)))

\* The lines from..to of the text.
LinesFrom(lines, from, to) == [k \in 1..(to - from + 1) |-> lines[from + k - 1]]

\* C30: chunk_text on n lines takes them in order in windows of 10 lines, the
\* last of the 1..10 lines left, joins each window with newlines and drops
\* exactly the windows in which every line is blank; 25 lines that are not
\* blank give chunks of 10, 10 and 5 lines.
C30_WindowsOfTen ==
    (input.fn = "chunk_text" /\ output.some) =>
    LET lines == input.lines
        n == Len(lines)
        windows == {w \in 1..n : w * 10 - 9 <= n}
        last(w) == IF w * 10 <= n THEN w * 10 ELSE n
        blank(w) ==
            \A k \in (w * 10 - 9)..last(w) :
                \A i \in DOMAIN lines[k] : lines[k][i] = " "
        kept == {w \in windows : ~blank(w)}
        nth(j) == CHOOSE w \in kept : Cardinality({v \in kept : v <= w}) = j
        chunks == output.value
    IN  /\ Len(chunks) = Cardinality(kept)
        /\ \A j \in DOMAIN chunks :
               Split(chunks[j]) = LinesFrom(lines, nth(j) * 10 - 9, last(nth(j)))
        /\ (n = 25 /\ kept = 1..3) =>
               /\ Len(Split(chunks[1])) = 10
               /\ Len(Split(chunks[2])) = 10
               /\ Len(Split(chunks[3])) = 5

\* Of 25 lines, those of the second window all blank, the first and the third
\* window are the chunks.
C30_Witness ==
    /\ input.fn = "chunk_text" /\ output.some
    /\ Len(input.lines) = 25
    /\ \A k \in 1..25 : (input.lines[k] \in {<<>>, <<" ">>}) <=> k \in 11..20
    /\ Len(output.value) = 2
    /\ Len(Split(output.value[2])) = 5

\* The pipeline of chunk i of the file being processed, as the calls name it.
PipelineOf(i) == <<i, chunk_info[i].chunk>>

\* C31: in a chunk pipeline the embedding comes first, then the upload, then
\* the record: send_to_chroma is called only for a chunk whose embedding call
\* has returned an embedding, never for one whose embedding call failed, and
\* an IndexedChunk is recorded only for a chunk whose add request succeeded.
C31_EmbedThenUploadThenRecord ==
    pc = "batch" =>
        /\ calls.add \subseteq calls.embed
        /\ \A i \in DOMAIN tasks :
               /\ tasks[i] = "embed" => PipelineOf(i) \notin calls.embed
               /\ tasks[i] = "upload" => PipelineOf(i) \in calls.add
        /\ \A i \in DOMAIN results :
               /\ results[i] = "embed_err" => PipelineOf(i) \notin calls.add
               /\ results[i] # "embed_err" => PipelineOf(i) \in calls.add
        /\ Len(new_chunks) = Cardinality(Succeeded(results))
        /\ \A k \in DOMAIN new_chunks :
               /\ new_chunks[k].id \in remote
               /\ \E i \in Succeeded(results) :
                      new_chunks[k].hash = chunk_info[i].hash

\* Of three pipelines one failed at the embedding, one at the upload and one
\* gave the only chunk recorded.
C31_Witness ==
    /\ pc = "batch"
    /\ \E i, j, k \in DOMAIN results :
           /\ results[i] = "embed_err"
           /\ results[j] = "upload_err"
           /\ results[k] = "ok"
    /\ Len(new_chunks) = 1

\* C32: the files of a run are processed one after another: the pipelines in
\* flight are all of the file being visited, none is in flight between two
\* files, and the run moves on to the next file only when every batch of the
\* file has been dispatched and has drained and, if chunks were added, its
\* record is updated and the deletes of its removed chunks are asked.
C32_FilesOneAfterAnother ==
    [][/\ (pc' = "batch") =>
              /\ visit'.path = paths'[fidx']
              /\ chunk_info' = ChunkInfo(chunk_text(fsys'[visit'.path].content),
                                         prev_chunks')
              /\ DOMAIN tasks' \subseteq DOMAIN chunk_info'
       /\ (pc' = "loop") => tasks' = NoTasks
       /\ (pc = "batch" /\ fidx' # fidx) =>
              /\ tasks = NoTasks
              /\ calls.start = DOMAIN chunk_info
              /\ DOMAIN results = DOMAIN chunk_info
              /\ (pc' = "loop" /\ new_chunks # <<>>) =>
                     /\ state'[visit.path] =
                            [last_modified |-> modified,
                             chunks |-> updated_chunks(prev_chunks, new_chunks)]
                     /\ calls'.delete =
                            Ids(removed_chunks(prev_chunks, new_chunks))]_vars

\* The pipeline of the second file is in flight; the first file has its
\* record and nothing of it is running.
C32_Witness ==
    /\ pc = "batch" /\ fidx = 2 /\ visit.path = "b.md"
    /\ DOMAIN tasks = {1}
    /\ "a.md" \in DOMAIN state /\ state["a.md"].chunks # <<>>
    /\ persisted = EmptyState

\* The cache entry that command p inserts at query.rs 139.
Inserted(p) ==
    QueryCache(procs[p].query, hash_query_context(procs[p].query, <<>>),
               procs[p].query_embedding, procs[p].answer)

\* Command p saved its entry and the cache file does not hold it.
LostEntry(p) ==
    /\ Inserted(p) \in Range(procs[p].cache)
    /\ Inserted(p) \notin Range(cache_file)

\* Command p saved its turn and the sessions file does not hold it: the
\* session is not there, or the question is not among its queries.
LostTurn(p) ==
    LET mine == get_active_session(procs[p].session_manager)
    IN  /\ mine.some
        /\ procs[p].query \in Range(mine.value.queries)
        /\ \/ mine.value.id \notin DOMAIN sessions_file.sessions
           \/ procs[p].query \notin
                  Range(sessions_file.sessions[mine.value.id].queries)

BothDone == \A p \in Procs : procs[p].pc = "done"

\* C33: two query commands run at once on one state directory lose an
\* update. When both have ended, each file is the document of the command
\* that saved last, whole; and when neither command had the other's cache
\* entry in the snapshot it loaded, the cache file lacks the entry of one of
\* them. The witness is such an end: an entry and a turn of one command are
\* in neither file.
C33_LastSaveWins ==
    BothDone =>
        /\ \E p \in Procs : cache_file = procs[p].cache
        /\ \E p \in Procs : sessions_file = procs[p].session_manager
        /\ (\A p, q \in Procs :
               p # q => /\ Inserted(p) \in Range(procs[p].cache)
                        /\ Inserted(p) \notin Range(procs[q].cache))
           => \E p \in Procs : LostEntry(p)

C33_Witness ==
    /\ BothDone
    /\ \E p \in Procs : LostEntry(p)
    /\ \E p \in Procs : LostTurn(p)

\* The active-session pointer of a manager is unset or names one of its
\* sessions.
PointerOk(sm) ==
    sm.active_session.some => sm.active_session.value \in DOMAIN sm.sessions

\* C34: whatever query and sessions commands have run (sessions created,
\* switched to, written to, cleared), the active-session pointer of the
\* manager in memory and of the one in sessions.json is unset or names a key
\* of the sessions map.
C34_ActiveNamesSession ==
    PointerOk(session_manager) /\ PointerOk(sessions_file)

\* A clear has just removed the active session, which held a turn: the
\* pointer is unset in memory and in the file, and the session is gone.
C34_Witness ==
    /\ qpc = "done"
    /\ shown = Some([origin |-> "clear", answer |-> <<>>])
    /\ get_active_session(loaded.sessions).some
    /\ get_active_session(loaded.sessions).value.queries # <<>>
    /\ session_manager = NoSessions
    /\ sessions_file = NoSessions

\* The chunk ids that an index state names.
IdsOf(st) == UNION {Ids(st[f].chunks) : f \in DOMAIN st}

\* C35: after any indexing runs, with pipelines that fail and runs that
\* abort, every chunk id of the state file is in the remote collection: it
\* was added there by a successful add request and no delete request of the
\* program has removed it.
C35_PersistedChunksAreRemote == IdsOf(persisted) \subseteq remote

\* A first run saved chunks although a pipeline of it failed, and a second
\* run was aborted after it had added a chunk the state file does not name.
C35_Witness ==
    /\ pc = "failed"
    /\ run = 2
    /\ IdsOf(persisted) # {}
    /\ history # {}
    /\ remote \ IdsOf(persisted) # {}

\* C36: a step that answers from the similarity cache leaves the manager
\* that add_interaction would leave for the same query and answer at the
\* current time (both pushes and last_updated), and writes it to the
\* sessions file.
C36_CachedTurnAsAddInteraction ==
    [][(qpc = "lookup" /\ qpc' = "done") =>
          /\ session_manager' =
                 add_interaction(session_manager, hq.query,
                                 shown'.value.answer, clock).sm
          /\ sessions_file' = session_manager'
          /\ "sessions" \in writes']_vars

\* The command has ended with an answer of the similarity cache.
AnsweredFromCache ==
    qpc = "done" /\ shown.some /\ shown.value.origin = "cache"

\* C37: a query answered from the similarity cache leaves the query cache
\* as it was loaded: the cache in memory and the cache file are the snapshot
\* read at the start of the command, and the command has not written the
\* cache file.
C37_CacheHitLeavesCache ==
    AnsweredFromCache =>
        /\ cache = loaded.cache
        /\ cache_file = loaded.cache
        /\ "cache" \notin writes

\* The second command was answered from the cache the first one filled.
C37_Witness ==
    /\ AnsweredFromCache
    /\ clock = MaxInvocations
    /\ cache_file # <<>>
    /\ writes = {"sessions"}

\* The eligible entries whose similarity no eligible entry exceeds.
Maximal == {i \in Eligible : \A j \in Eligible : ~Greater(Sim(j), Sim(i))}

\* C38: when eligible entries share the maximal similarity, find_similar
\* returns the answer of the last of them in list order, the one inserted
\* most recently; with no eligible entry it returns nothing.
C38_LastOfTiesWins ==
    (input.fn = "find_similar" /\ output.some) =>
        IF Maximal = {} THEN output.value = None
        ELSE \E last \in Maximal :
                /\ \A i \in Maximal : i <= last
                /\ output.value = Some(input.entries[last].answer)

\* Three eligible entries: the first two tie at the maximum, the third is
\* below it; the answer is the second's.
C38_Witness ==
    /\ input.fn = "find_similar"
    /\ output.some
    /\ Eligible = {1, 2, 3}
    /\ Maximal = {1, 2}
    /\ output.value = Some(input.entries[2].answer)

\* The command that has just ended was sessions --clear.
Cleared == qpc = "done" /\ shown = Some([origin |-> "clear", answer |-> <<>>])

\* C39: sessions --clear on a manager with an active pointer removes the
\* session it names and no other, unsets the pointer and writes the result to
\* the sessions file; every other session is as it was loaded. With no
\* active pointer the sessions file is as it was and nothing is written.
C39_ClearRemovesActiveOnly ==
    Cleared =>
        LET before == loaded.sessions
        IN  IF before.active_session.some
            THEN /\ DOMAIN sessions_file.sessions =
                        DOMAIN before.sessions \ {before.active_session.value}
                 /\ \A id \in DOMAIN sessions_file.sessions :
                        sessions_file.sessions[id] = before.sessions[id]
                 /\ sessions_file.active_session = None
                 /\ writes = {"sessions"}
            ELSE /\ sessions_file = before
                 /\ writes = {}

\* Of two stored sessions with a turn each the active one was cleared and
\* the other is left.
C39_Witness ==
    /\ Cleared
    /\ loaded.sessions.active_session = Some(SessionId(1))
    /\ DOMAIN loaded.sessions.sessions = StoredIds
    /\ \A id \in StoredIds : loaded.sessions.sessions[id].queries # <<>>
    /\ DOMAIN sessions_file.sessions = {SessionId(2)}
    /\ writes = {"sessions"}

Running == pc \in {"loop", "batch"}

\* C40: when every call returns, a run of handle_index terminates. A run
\* that is going on leads to one that has ended, by the save of the state
\* (done) or by an error (failed); pipelines in flight lead to a drained
\* batch; the paths of a run are distinct and the loop never comes back to
\* a path: each return to the head of the loop has advanced the index by
\* one; and the run ends with the state saved or with the state file as
\* it was.
C40_RunTerminates ==
    /\ Running ~> (pc \in {"done", "failed"})
    /\ (pc = "batch" /\ ~BatchDrained(tasks)) ~> BatchDrained(tasks)
    /\ [][Running =>
              /\ \A i, j \in DOMAIN paths : paths[i] = paths[j] => i = j
              /\ Running' => /\ paths' = paths
                             /\ (pc' = "batch") => fidx' = fidx
                             /\ (pc' = "loop") => fidx' = fidx + 1
              /\ (pc' = "done") => fidx > Len(paths) /\ persisted' = state
              /\ (pc' = "failed") => persisted' = persisted]_vars

\* The second run has ended by saving both files although a pipeline of it
\* failed.
C40_Witness ==
    /\ pc = "done"
    /\ run = MaxRuns
    /\ DOMAIN persisted = {"a.md", "b.md"}
    /\ history # {}

====
